---- MODULE Spec2Model ----
(***************************************************************************)
(* A model of app-hound: the scanner (candidate generation, canonical-path *)
(* de-duplication, materialisation), the deletion planner and the artifact *)
(* remover.  Strings are sequences of one-character strings, a path is a   *)
(* record of its directory components and its final name, and the          *)
(* filesystem is a function from a finite set of paths to nodes; every     *)
(* path outside that set is absent.                                        *)
(***************************************************************************)
EXTENDS Integers, Sequences, FiniteSets, TLC

VARIABLES
    fs,         \* the filesystem: path -> node
    fs0,        \* the filesystem as it was when the run started
    apps,       \* the AppConfiguration of every application scanned so far
    results,    \* perform_scans: the ScanResult of every application scanned so far
    policy,     \* the enable_policy handed to from_scan_results ("unset" before)
    plan,       \* DeletionPlan.entries
    pc,         \* position of main: "scan", "planned"; of remove: "loop", ..., "done"
    entries,    \* ArtifactRemover.remove: the entries passed in
    flags,      \* ArtifactRemover.remove: dry_run, prompt, force, stop_on_error
    idx,        \* ArtifactRemover.remove: position of the for loop (1-based)
    op,         \* _python_remove: the removal call chosen for the current entry
    succeeded,  \* RemovalReport.succeeded, as positions of entries
    failed,     \* RemovalReport.failed, as <<position, message>>
    skipped,    \* RemovalReport.skipped, as positions of entries
    calls,      \* log of the filesystem-changing calls the remover has issued
    raced,      \* positions whose path an external actor deleted before they were finished
    libcall,    \* a library call made on its own: its arguments and, once returned, its result
    out,        \* main: the reports written and the messages emitted so far
    status      \* main: the exit status, None while main is running

vars == <<fs, fs0, apps, results, policy, plan, pc, entries, flags, idx, op,
          succeeded, failed, skipped, calls, raced, libcall, out, status>>

----------------------------------------------------------------------------
(* Bounds *)

MaxApps == 2
MaxEntries == 2
MaxSteps == 2
MaxDerived == 2
MaxNameLen == 3
MaxPathLen == 3
MaxConfigured == 2

----------------------------------------------------------------------------
(* Generic sequence helpers *)

None == <<>>
Some(x) == <<x>>

RECURSIVE Flatten(_)
Flatten(ss) == IF ss = <<>> THEN <<>> ELSE Head(ss) \o Flatten(Tail(ss))

Range(s) == {s[i] : i \in 1..Len(s)}

\* the sequence s, with every element computed once
List(s) == <<>> \o s

----------------------------------------------------------------------------
(* Python str operations, on sequences of characters *)

UpperChars == <<"A","B","C","D","E","F","G","H","I","J","K","L","M",
                "N","O","P","Q","R","S","T","U","V","W","X","Y","Z">>
LowerChars == <<"a","b","c","d","e","f","g","h","i","j","k","l","m",
                "n","o","p","q","r","s","t","u","v","w","x","y","z">>
DigitChars == {"0","1","2","3","4","5","6","7","8","9"}
Whitespace == {" ", "\t", "\n"}

IsUpper(c) == \E i \in 1..Len(UpperChars) : UpperChars[i] = c
IsLowerAlnum(c) == (\E i \in 1..Len(LowerChars) : LowerChars[i] = c) \/ c \in DigitChars
IsAlnum(c) == IsUpper(c) \/ IsLowerAlnum(c)

LowerChar(c) ==
    IF IsUpper(c) THEN LowerChars[CHOOSE i \in 1..Len(UpperChars) : UpperChars[i] = c]
    ELSE c

\* the string as it is, upper case kept
lower_kept_case(s) == s

\* str.lower()
lower(s) == [i \in 1..Len(s) |-> LowerChar(s[i])]

\* str.replace(old, new) for a one-character old
replace(s, old, new) ==
    Flatten([i \in 1..Len(s) |-> IF s[i] = old THEN new ELSE <<s[i]>>])

RECURSIVE lstrip(_, _)
lstrip(s, chars) ==
    IF s # <<>> /\ Head(s) \in chars THEN lstrip(Tail(s), chars) ELSE s

RECURSIVE rstrip(_, _)
rstrip(s, chars) ==
    IF s # <<>> /\ s[Len(s)] \in chars THEN rstrip(SubSeq(s, 1, Len(s) - 1), chars) ELSE s

\* str.strip(chars); str.strip() strips whitespace
strip(s, chars) == rstrip(lstrip(s, chars), chars)

startswith(s, prefix) ==
    Len(s) >= Len(prefix) /\ SubSeq(s, 1, Len(prefix)) = prefix

endswith(s, suffix) ==
    Len(s) >= Len(suffix) /\ SubSeq(s, Len(s) - Len(suffix) + 1, Len(s)) = suffix

\* re.sub(r"[^A-Za-z0-9]+", "", s)
sub_non_alnum(s) == SelectSeq(s, IsAlnum)

\* re.sub(r"[^a-z0-9]+", "-", s): every maximal run of other characters becomes one "-"
RECURSIVE sub_non_lower_alnum(_)
sub_non_lower_alnum(s) ==
    IF s = <<>> THEN <<>>
    ELSE IF IsLowerAlnum(Head(s)) THEN <<Head(s)>> \o sub_non_lower_alnum(Tail(s))
    ELSE IF Len(s) >= 2 /\ ~IsLowerAlnum(s[2]) THEN sub_non_lower_alnum(Tail(s))
    ELSE <<"-">> \o sub_non_lower_alnum(Tail(s))

\* pattern.search(entry) for re.compile(re.escape(app_name), re.IGNORECASE)
search_ignorecase(needle, hay) ==
    \E i \in 1..(Len(hay) - Len(needle) + 1) :
        lower(SubSeq(hay, i, i + Len(needle) - 1)) = lower(needle)

DotApp == <<".","a","p","p">>
DotPlist == <<".","p","l","i","s","t">>
DotSavedState == <<".","s","a","v","e","d","S","t","a","t","e">>
ComDot == <<"c","o","m",".">>

----------------------------------------------------------------------------
(* Scanner: name and bundle-identifier candidates *)

strip_app_suffix(value) ==
    IF endswith(lower(value), DotApp) THEN SubSeq(value, 1, Len(value) - Len(DotApp))
    ELSE value

RECURSIVE unique_from(_, _)
unique_from(values, ordered) ==
    IF values = <<>> THEN ordered
    ELSE LET cleaned == strip(Head(values), Whitespace)
         IN  IF cleaned = <<>> \/ cleaned \in Range(ordered)
             THEN unique_from(Tail(values), ordered)
             ELSE unique_from(Tail(values), Append(ordered, cleaned))

\* trimmed and empties dropped, but a value seen before is kept again
unique_with_repeats(values) ==
    SelectSeq([i \in 1..Len(values) |-> strip(values[i], Whitespace)],
              LAMBDA v : v # <<>>)

unique(values) == unique_from(values, <<>>)

compact_token(app_name) ==
    LET normalized == sub_non_alnum(app_name)
        spaced_lower == lower(app_name)
    IN  IF normalized # <<>> THEN lower(normalized) ELSE replace(spaced_lower, " ", <<>>)

slug_token(app_name) == strip(sub_non_lower_alnum(lower(app_name)), {"-"})

\* the list _name_candidates hands to _unique
raw_name_candidates(app_name) ==
    LET spaced_lower == lower(app_name)
        slug == slug_token(app_name)
        compact == compact_token(app_name)
    IN  << app_name,
           strip_app_suffix(app_name),
           spaced_lower,
           strip_app_suffix(spaced_lower),
           replace(app_name, " ", <<>>),
           replace(spaced_lower, " ", <<>>),
           replace(app_name, " ", <<"-">>),
           replace(spaced_lower, " ", <<"-">>),
           replace(app_name, " ", <<"_">>),
           replace(spaced_lower, " ", <<"_">>),
           replace(slug, "-", <<>>),
           slug,
           compact >>

name_candidates(app_name) == unique(raw_name_candidates(app_name))

\* the list _bundle_candidates hands to _unique
raw_bundle_candidates(app_name, names) ==
    LET slug == slug_token(app_name)
        compact == compact_token(app_name)
        plain == SelectSeq(names, LAMBDA c : c # <<>> /\ ~startswith(c, ComDot))
    IN  << compact,
           replace(slug, "-", <<".">>),
           IF compact # <<>> THEN ComDot \o compact ELSE <<>> >>
        \o SelectSeq(names, LAMBDA c : startswith(c, ComDot))
        \o [i \in 1..Len(plain) |-> ComDot \o plain[i]]

bundle_candidates(app_name, names) ==
    LET compact == compact_token(app_name)
        deduplicated == unique(raw_bundle_candidates(app_name, names))
    IN  IF deduplicated # <<>> THEN deduplicated
        ELSE IF compact # <<>> THEN <<compact>>
        ELSE SelectSeq(names, LAMBDA c : c # <<>>)

----------------------------------------------------------------------------
(* Paths and the filesystem *)

Path(dir, name) == [dir |-> dir, name |-> name]

NoPath == Path(<<>>, <<>>)

Home == <<"Users", "u">>

Absent == [kind |-> "absent", target |-> NoPath, uw |-> FALSE, ioerr |-> FALSE]
File(uw) == [kind |-> "file", target |-> NoPath, uw |-> uw, ioerr |-> FALSE]
Dir(uw) == [kind |-> "dir", target |-> NoPath, uw |-> uw, ioerr |-> FALSE]
Symlink(target) == [kind |-> "symlink", target |-> target, uw |-> TRUE, ioerr |-> FALSE]

Lookup(f, p) == IF p \in DOMAIN f THEN f[p] ELSE Absent

\* os.path.lexists: the path itself is there, without following a link
lexists(f, p) == Lookup(f, p).kind # "absent"

\* Path.resolve: follows links; a dangling link resolves (non-strict) to its target,
\* a link loop leaves the expanded path as it is
RECURSIVE resolve_from(_, _, _, _)
resolve_from(f, expanded, p, visited) ==
    IF Lookup(f, p).kind # "symlink" THEN p
    ELSE IF p \in visited THEN expanded
    ELSE resolve_from(f, expanded, Lookup(f, p).target, visited \cup {p})

resolve(f, p) == resolve_from(f, p, p, {})

\* Path.exists, Path.is_dir, Path.is_file follow links; Path.is_symlink does not
exists(f, p) == Lookup(f, resolve(f, p)).kind \in {"file", "dir", "special"}
is_dir(f, p) == Lookup(f, resolve(f, p)).kind = "dir"
is_file(f, p) == Lookup(f, resolve(f, p)).kind = "file"
is_symlink(f, p) == Lookup(f, p).kind = "symlink"
is_writable(f, p) == Lookup(f, resolve(f, p)).uw

\* a stat that never raises
stat_never_raises(f, p) ==
    LET n == Lookup(f, resolve(f, p))
    IN  [ok |-> exists(f, p),
         st_size |-> IF n.kind = "file" THEN 3 ELSE 1,
         st_mtime |-> 7,
         st_uw |-> n.uw]

\* Path.stat follows links; ok is FALSE when it raises OSError
stat(f, p) ==
    LET n == Lookup(f, resolve(f, p))
    IN  [ok |-> exists(f, p) /\ ~n.ioerr,
         st_size |-> IF n.kind = "file" THEN 3 ELSE 1,
         st_mtime |-> 7,
         st_uw |-> n.uw]

----------------------------------------------------------------------------
(* Scanner: candidates *)

ScanCandidate(path, category, scope, safety, note) ==
    [path |-> path, category |-> category, scope |-> scope,
     removal_safety |-> safety, notes |-> <<note>>]

Root(dir, scope, note) == [dir |-> dir, scope |-> scope, note |-> note]

\* the candidates of a root marked safe, whatever their category
root_candidates_all_safe(roots, names, category, safety) ==
    Flatten([r \in 1..Len(roots) |->
        [n \in 1..Len(names) |->
            ScanCandidate(Path(roots[r].dir, names[n]), category,
                          roots[r].scope, "safe", roots[r].note)]])

\* for root, scope, note in roots: for name in names: add_candidate(root / name, ...)
root_candidates(roots, names, category, safety) ==
    Flatten([r \in 1..Len(roots) |->
        [n \in 1..Len(names) |->
            ScanCandidate(Path(roots[r].dir, names[n]), category,
                          roots[r].scope, safety, roots[r].note)]])

suffixed(names, suffix) == [i \in 1..Len(names) |-> names[i] \o suffix]

application_roots ==
    << Root(<<"Applications">>, "system", "System Applications directory"),
       Root(<<"Applications", "Utilities">>, "system", "System Utilities directory"),
       Root(<<"System", "Applications">>, "system", "System managed Applications directory"),
       Root(<<"System", "Applications", "Utilities">>, "system",
            "System managed Utilities directory"),
       Root(<<"Applications", "Setapp">>, "system", "Setapp directory"),
       Root(Home \o <<"Applications">>, "default", "User Applications directory") >>

shared_roots == << Root(<<"Users", "Shared">>, "system", "Shared user directory") >>

support_roots ==
    << Root(Home \o <<"Library", "Application Support">>, "default",
            "User Application Support location"),
       Root(<<"Library", "Application Support">>, "system",
            "System Application Support location") >>

preference_roots ==
    << Root(Home \o <<"Library", "Preferences">>, "default", "User preferences plist"),
       Root(<<"Library", "Preferences">>, "system", "System preferences plist") >>

launch_roots ==
    << Root(Home \o <<"Library", "LaunchAgents">>, "default", "User LaunchAgents plist"),
       Root(<<"Library", "LaunchAgents">>, "system", "System LaunchAgents plist"),
       Root(<<"Library", "LaunchDaemons">>, "system", "System LaunchDaemons plist") >>

cache_roots ==
    << Root(Home \o <<"Library", "Caches">>, "default", "User caches"),
       Root(<<"Library", "Caches">>, "system", "System caches") >>

log_roots ==
    << Root(Home \o <<"Library", "Logs">>, "default", "User logs"),
       Root(<<"Library", "Logs">>, "system", "System logs") >>

saved_state_roots ==
    << Root(Home \o <<"Library", "Saved Application State">>, "default",
            "User saved application state"),
       Root(<<"Library", "Saved Application State">>, "system",
            "System saved application state") >>

container_roots ==
    << Root(Home \o <<"Library", "Containers">>, "default", "User application containers"),
       Root(Home \o <<"Library", "Group Containers">>, "default", "User group containers"),
       Root(Home \o <<"Library", "Application Scripts">>, "default",
            "User application scripts") >>

default_candidates(app_name) ==
    LET names == name_candidates(app_name)
        bundles == bundle_candidates(app_name, names)
        app_titles == unique([i \in 1..Len(names) |-> strip_app_suffix(names[i])])
        bundle_names == unique(suffixed(app_titles, DotApp))
        combined_names == names \o bundles
        preference_targets == unique(names \o suffixed(bundles, DotPlist))
        preference_files ==
            [i \in 1..Len(preference_targets) |->
                IF endswith(preference_targets[i], DotPlist) THEN preference_targets[i]
                ELSE preference_targets[i] \o DotPlist]
    IN  Flatten([r \in 1..Len(application_roots) |->
            root_candidates(<<application_roots[r]>>, bundle_names \o app_titles,
                            "application", "caution")])
        \o root_candidates(shared_roots, app_titles, "support", "caution")
        \o root_candidates(support_roots, combined_names, "support", "caution")
        \o root_candidates(preference_roots, preference_files, "preferences", "caution")
        \o root_candidates(launch_roots, suffixed(combined_names, DotPlist),
                           "launch-agent", "caution")
        \o root_candidates(cache_roots, combined_names, "cache", "safe")
        \o root_candidates(log_roots, combined_names, "logs", "safe")
        \o root_candidates(saved_state_roots, suffixed(bundles, DotSavedState),
                           "support", "caution")
        \o root_candidates(container_roots, bundles, "support", "caution")

----------------------------------------------------------------------------
(* Scanner: configured and deep-search candidates *)

ScanError(kind, path, pattern) == [kind |-> kind, path |-> path, pattern |-> pattern]

\* glob.iglob(expanded, recursive=True): the paths of the pattern that are there
\* (a pattern is its text and the paths its syntax matches)
iglob(f, pattern) == SelectSeq(pattern.paths, LAMBDA p : lexists(f, p))

pattern_candidates(f, pattern) ==
    [i \in 1..Len(iglob(f, pattern)) |->
        ScanCandidate(iglob(f, pattern)[i], "other", "configured", "review",
                      "Matched configured pattern")]

\* a pattern that matches nothing is passed over in silence
configured_candidates_silent(f, configuration) ==
    LET locations == configuration.additional_locations
        patterns == configuration.patterns
    IN  [candidates |->
            [i \in 1..Len(locations) |->
                ScanCandidate(locations[i], "other", "configured", "review",
                              "Configured additional location")]
            \o Flatten([i \in 1..Len(patterns) |-> pattern_candidates(f, patterns[i])]),
         errors |-> <<>>]

configured_candidates(f, configuration) ==
    LET locations == configuration.additional_locations
        patterns == configuration.patterns
    IN  [candidates |->
            [i \in 1..Len(locations) |->
                ScanCandidate(locations[i], "other", "configured", "review",
                              "Configured additional location")]
            \o Flatten([i \in 1..Len(patterns) |-> pattern_candidates(f, patterns[i])]),
         errors |->
            Flatten([i \in 1..Len(patterns) |->
                IF iglob(f, patterns[i]) # <<>> THEN <<>>
                ELSE <<ScanError("pattern", NoPath, patterns[i].text)>>])]

max_matches == 500

\* The paths at which the modelled filesystems may hold a node
AppAb == <<"A", "b">>
AppLowerAb == <<"a", "b">>
PCache == Path(Home \o <<"Library", "Caches">>, <<"a", "b">>)
PPrefs == Path(Home \o <<"Library", "Preferences">>, <<"a", "b">> \o DotPlist)
PDocs == Path(Home \o <<"Documents">>, <<"A", "b", "-", "x">>)
PExtra == Path(<<"opt">>, <<"x">>)
PAlias == Path(<<"opt">>, <<"l">>)

\* the entries below home, in directory-listing order
HomeEntries == <<PDocs, PCache, PPrefs>>

\* os.walk(home): the directories below home in the order they are visited
HomeWalk ==
    << Home \o <<"Documents">>,
       Home \o <<"Library", "Caches">>,
       Home \o <<"Library", "Preferences">> >>

\* one (root, dirnames, filenames) step of os.walk: the names of root that match,
\* dirnames before filenames
walk_matches(f, app_name, root) ==
    LET here == SelectSeq(HomeEntries, LAMBDA p : p.dir = root /\ lexists(f, p)
                                            /\ search_ignorecase(app_name, p.name))
    IN  SelectSeq(here, LAMBDA p : is_dir(f, p)) \o SelectSeq(here, LAMBDA p : ~is_dir(f, p))

\* the loop of _deep_home_candidates over the steps of os.walk, each step given as
\* the matching paths of one root, dirnames before filenames: a match is appended
\* and counted, and the walk is broken off, with one error, as soon as the count
\* reaches max_matches
deep_home_matches(steps) ==
    LET matches == Flatten(steps)
        taken == IF Len(matches) >= max_matches THEN SubSeq(matches, 1, max_matches)
                 ELSE matches
    IN  [candidates |->
            [i \in 1..Len(taken) |->
                ScanCandidate(taken[i], "other", "discovered", "review",
                              "Deep home search match")],
         errors |->
            IF Len(matches) >= max_matches
            THEN <<ScanError("truncated", NoPath, "")>> ELSE <<>>]

deep_home_candidates(f, app_name) ==
    deep_home_matches([i \in 1..Len(HomeWalk) |-> walk_matches(f, app_name, HomeWalk[i])])

\* _default_candidates, tabulated once for the application names of the model
DefaultTable == [name \in {AppAb, AppLowerAb} |-> default_candidates(name)]

default_candidates_of(app_name) ==
    IF app_name \in DOMAIN DefaultTable THEN DefaultTable[app_name]
    ELSE default_candidates(app_name)

\* the deep-search matches put in front of the default table
build_candidates_deep_first(f, configuration, deep_home_search) ==
    LET configured == configured_candidates(f, configuration)
        deep == IF deep_home_search
                THEN deep_home_candidates(f, configuration.name)
                ELSE [candidates |-> <<>>, errors |-> <<>>]
    IN  [candidates |-> deep.candidates \o default_candidates_of(configuration.name)
                        \o configured.candidates,
         errors |-> configured.errors \o deep.errors]

build_candidates(f, configuration, deep_home_search) ==
    LET configured == configured_candidates(f, configuration)
        deep == IF deep_home_search
                THEN deep_home_candidates(f, configuration.name)
                ELSE [candidates |-> <<>>, errors |-> <<>>]
    IN  [candidates |-> default_candidates_of(configuration.name)
                        \o configured.candidates \o deep.candidates,
         errors |-> configured.errors \o deep.errors]

----------------------------------------------------------------------------
(* Scanner: materialisation and the scan loop *)

\* the key taken from the candidate path as written, links not followed
canonical_key_unresolved(f, path) == path

canonical_key(f, path) == resolve(f, path)

determine_kind(f, path, exists_) ==
    IF ~exists_ THEN "unknown"
    ELSE IF is_symlink(f, path) THEN "symlink"
    ELSE IF is_dir(f, path) THEN "directory"
    ELSE IF is_file(f, path) THEN "file"
    ELSE "unknown"

materialize(f, app_name, candidate) ==
    LET resolved_path == resolve(f, candidate.path)
        exists_ == exists(f, resolved_path)
        kind == determine_kind(f, resolved_path, exists_)
        stats == stat(f, resolved_path)
        stat_ok == exists_ /\ stats.ok
    IN  [artifact |->
            [app_name |-> app_name,
             path |-> resolved_path,
             kind |-> kind,
             scope |-> candidate.scope,
             category |-> candidate.category,
             removal_safety |-> candidate.removal_safety,
             exists |-> exists_,
             writable |-> IF exists_ THEN Some(is_writable(f, resolved_path)) ELSE None,
             size_bytes |-> IF stat_ok /\ kind = "file" /\ ~is_symlink(f, resolved_path)
                            THEN Some(stats.st_size) ELSE None,
             last_modified |-> IF stat_ok THEN Some(stats.st_mtime) ELSE None,
             notes |-> candidate.notes,
             removal_instructions |-> <<>>],
         error |->
            IF exists_ /\ ~stats.ok
            THEN Some(ScanError("metadata", resolved_path, "")) ELSE None]

\* every materialised candidate reported, whatever its scope
included_whatever_scope(artifact, candidate) == TRUE

\* the inclusion rule of the scan loop
included(artifact, candidate) ==
    artifact.exists \/ (~artifact.exists /\ candidate.scope = "configured")

\* "canonical in seen_paths" at the turn of candidate i: an earlier candidate
\* has the same canonical key
seen_before(keys, i) == \E j \in 1..(i - 1) : keys[j] = keys[i]

\* the loop of Scanner.scan over the candidates, in candidate order
scan_loop(f, app_name, candidates, candidate_errors) ==
    LET keys == List([i \in 1..Len(candidates) |-> canonical_key(f, candidates[i].path)])
        turns == SelectSeq([i \in 1..Len(candidates) |-> i],
                           LAMBDA i : ~seen_before(keys, i))
        made == List([k \in 1..Len(turns) |->
                          materialize(f, app_name, candidates[turns[k]])])
        kept == SelectSeq([k \in 1..Len(turns) |-> k],
                          LAMBDA k : included(made[k].artifact, candidates[turns[k]]))
        erring == SelectSeq(made, LAMBDA m : m.error # None)
    IN  [app_name |-> app_name,
         artifacts |-> [k \in 1..Len(kept) |-> made[kept[k]].artifact],
         errors |-> candidate_errors \o [k \in 1..Len(erring) |-> erring[k].error[1]]]

\* Scanner.scan
scan(f, configuration, deep_home_search_default) ==
    LET built == build_candidates(f, configuration,
                     configuration.deep_home_search \/ deep_home_search_default)
    IN  scan_loop(f, configuration.name, built.candidates, built.errors)

----------------------------------------------------------------------------
(* Deletion planner *)

\* enabled for every tier but review
default_enable_policy_caution_too(artifact) ==
    IF ~artifact.exists THEN FALSE
    ELSE artifact.removal_safety # "review"

default_enable_policy(artifact) ==
    IF ~artifact.exists THEN FALSE
    ELSE artifact.removal_safety = "safe"

\* The caller-supplied enable policies of the model: what each returns for an
\* artifact, "raise" when it raises.  "None" is the absent policy.
CallerPolicies == {"always", "never", "raise_on_safe", "raise_on_missing"}

call_policy(enable_policy, artifact) ==
    CASE enable_policy = "always" -> "True"
      [] enable_policy = "never" -> "False"
      [] enable_policy = "raise_on_safe" ->
            IF artifact.removal_safety = "safe" THEN "raise" ELSE "False"
      [] enable_policy = "raise_on_missing" ->
            IF ~artifact.exists THEN "raise" ELSE "True"

\* a raising policy leaves the entry disabled instead of falling back
entry_enabled_no_fallback(enable_policy, artifact) ==
    IF enable_policy = "None" THEN default_enable_policy(artifact)
    ELSE call_policy(enable_policy, artifact) = "True"

\* the enabled flag from_scan_results computes for one artifact
entry_enabled(enable_policy, artifact) ==
    IF enable_policy = "None" THEN default_enable_policy(artifact)
    ELSE IF call_policy(enable_policy, artifact) = "raise"
         THEN default_enable_policy(artifact)
         ELSE call_policy(enable_policy, artifact) = "True"

PlanEntry(artifact, enabled) ==
    [app_name |-> artifact.app_name,
     path |-> artifact.path,
     kind |-> artifact.kind,
     category |-> artifact.category,
     scope |-> artifact.scope,
     exists |-> artifact.exists,
     writable |-> artifact.writable,
     removal_safety |-> artifact.removal_safety,
     notes |-> artifact.notes,
     removal_instructions |-> artifact.removal_instructions,
     enabled |-> enabled]

\* flatten_artifacts: the artifacts of every result, in result then artifact order
flatten_artifacts(rs) == Flatten([i \in 1..Len(rs) |-> rs[i].artifacts])

from_scan_results(rs, enable_policy) ==
    [i \in 1..Len(flatten_artifacts(rs)) |->
        PlanEntry(flatten_artifacts(rs)[i],
                  entry_enabled(enable_policy, flatten_artifacts(rs)[i]))]

enabled_entries(p) == SelectSeq(p, LAMBDA entry : entry.enabled)

----------------------------------------------------------------------------
(* The run of main: scan every configured application, then build the plan *)

\* the filesystems a run may start from
ScanFilesystems ==
    { [p \in {PCache, PPrefs, PDocs, PExtra, PAlias} |->
          CASE p = PCache -> cache
            [] p = PPrefs -> IF home = "both"
                             THEN [File(TRUE) EXCEPT !.ioerr = TRUE] ELSE Absent
            [] p = PDocs -> IF home = "both" THEN File(FALSE) ELSE Absent
            [] p = PExtra -> extra
            [] p = PAlias -> alias] :
        cache \in {Absent, Dir(TRUE), Symlink(PExtra)},
        home \in {"none", "both"},
        extra \in {Absent, File(TRUE), Dir(FALSE)},
        alias \in {Absent, Symlink(PExtra)} }

GlobOpt == [text |-> "/opt/*", paths |-> <<PAlias, PExtra>>]

\* the application configurations load_configuration may deliver
AppConfigurations ==
    { c \in [name : {AppAb, AppLowerAb},
             additional_locations : {<<>>, <<PCache>>, <<PAlias, PExtra>>},
             deep_home_search : BOOLEAN,
             patterns : {<<>>, <<GlobOpt>>}] :
        /\ c.patterns # <<>> => c.additional_locations = <<>> /\ c.name = AppAb
        /\ c.name = AppLowerAb =>
              ~c.deep_home_search /\ c.additional_locations # <<PAlias, PExtra>> }

NoFlags == [dry_run |-> TRUE, prompt |-> FALSE, force |-> FALSE, stop_on_error |-> FALSE]

\* --deep-home-search is off unless given on the command line
deep_home_search_default == FALSE

RemoverIdle ==
    /\ entries = <<>>
    /\ flags = NoFlags
    /\ idx = 0
    /\ op = "none"
    /\ succeeded = <<>>
    /\ failed = <<>>
    /\ skipped = <<>>
    /\ calls = {}
    /\ raced = {}

Init ==
    /\ fs \in ScanFilesystems
    /\ fs0 = fs
    /\ apps = <<>>
    /\ results = <<>>
    /\ policy = "unset"
    /\ plan = <<>>
    /\ pc = "scan"
    /\ out = {}
    /\ status = None
    /\ RemoverIdle
    /\ libcall = <<>>

\* a turn of the loop whose scan skips the paths that earlier scans reported
PerformScanSharingSeenPaths ==
    /\ pc = "scan"
    /\ Len(apps) < MaxApps
    /\ \E configuration \in AppConfigurations :
          LET alone == scan(fs, configuration, deep_home_search_default)
              reported == UNION { { results[i].artifacts[n].path :
                                      n \in 1..Len(results[i].artifacts) } :
                                  i \in 1..Len(results) }
          IN  /\ apps' = Append(apps, configuration)
              /\ results' = Append(results,
                                [alone EXCEPT !.artifacts =
                                    SelectSeq(alone.artifacts,
                                              LAMBDA a : a.path \notin reported)])
    /\ UNCHANGED <<fs, fs0, policy, plan, pc, entries, flags, idx, op,
                   succeeded, failed, skipped, calls, raced>>
    /\ UNCHANGED <<libcall, out, status>>

\* perform_scans: one turn of the loop over the configured applications
PerformScan ==
    /\ pc = "scan"
    /\ Len(apps) < MaxApps
    /\ \E configuration \in AppConfigurations :
          /\ apps' = Append(apps, configuration)
          /\ results' = Append(results, scan(fs, configuration, deep_home_search_default))
    /\ UNCHANGED <<fs, fs0, policy, plan, pc, entries, flags, idx, op,
                   succeeded, failed, skipped, calls, raced>>
    /\ UNCHANGED <<libcall, out, status>>

\* DeletionPlan.from_scan_results, once every application has been scanned
BuildPlan ==
    /\ pc = "scan"
    /\ Len(apps) >= 1
    /\ \E enable_policy \in {"None"} \cup CallerPolicies :
          /\ policy' = enable_policy
          /\ plan' = from_scan_results(results, enable_policy)
    /\ pc' = "planned"
    /\ UNCHANGED <<fs, fs0, apps, results, entries, flags, idx, op,
                   succeeded, failed, skipped, calls, raced>>
    /\ UNCHANGED <<libcall, out, status>>

Next == PerformScan \/ BuildPlan

Spec == Init /\ [][Next]_vars

----------------------------------------------------------------------------
(* ArtifactRemover *)

\* what the user may type at the "Delete ...? [y/N]" prompt
Responses == { <<"y">>, <<" ", "Y", "E", "S", "\n">>, <<"n">>, <<"y", "e", "a", "h">>, <<>> }

\* response = input(...).strip().lower(); response in ("y", "yes")
confirmed(response) ==
    lower(strip(response, Whitespace)) \in { <<"y">>, <<"y", "e", "s">> }

\* force overrides dry_run as well as enabled
gate_force_beats_dry_run(entry, fl, response) ==
    IF ~((entry.enabled \/ fl.force) /\ entry.exists) THEN "skip"
    ELSE IF fl.prompt /\ ~confirmed(response) THEN "skip"
    ELSE IF fl.dry_run /\ ~fl.force THEN "dry-run"
    ELSE "attempt"

\* force overrides the answer at the prompt as well as enabled
gate_force_beats_prompt(entry, fl, response) ==
    IF ~((entry.enabled \/ fl.force) /\ entry.exists) THEN "skip"
    ELSE IF fl.prompt /\ ~fl.force /\ ~confirmed(response) THEN "skip"
    ELSE IF fl.dry_run THEN "dry-run"
    ELSE "attempt"

\* the head of the loop of remove: skip the entry, report it as a dry run, or attempt it
gate(entry, fl, response) ==
    IF ~((entry.enabled \/ fl.force) /\ entry.exists) THEN "skip"
    ELSE IF fl.prompt /\ ~confirmed(response) THEN "skip"
    ELSE IF fl.dry_run THEN "dry-run"
    ELSE "attempt"

\* the batch goes on after a failure, whatever stop_on_error says
breaks_never(fl) == FALSE

\* "if stop_on_error: break"
breaks(fl) == fl.stop_on_error

\* os.unlink(path): the outcomes the call can have on a node
unlink_outcomes(node) ==
    CASE node.kind = "absent" -> {"FileNotFoundError"}
      [] node.kind = "dir" -> {"IsADirectoryError", "PermissionError"}
      [] OTHER -> {"ok", "PermissionError"}

\* a tree that is not there counts as removed (ignore_errors=True)
rmtree_outcomes_ignore_errors(node) ==
    CASE node.kind = "absent" -> {"ok"}
      [] node.kind = "symlink" -> {"OSError"}
      [] node.kind = "dir" -> {"ok", "PermissionError"}
      [] OTHER -> {"NotADirectoryError"}

\* shutil.rmtree(path): the outcomes the call can have on a node
rmtree_outcomes(node) ==
    CASE node.kind = "absent" -> {"FileNotFoundError"}
      [] node.kind = "symlink" -> {"OSError"}
      [] node.kind = "dir" -> {"ok", "PermissionError"}
      [] OTHER -> {"NotADirectoryError"}

\* _python_remove: the removal call chosen for an entry
removal_call(f, entry) ==
    IF is_symlink(f, entry.path) \/ entry.kind = "symlink" THEN "unlink"
    ELSE IF entry.kind = "directory" \/ is_dir(f, entry.path) THEN "rmtree"
    ELSE "unlink"

Call(entry, call, path) == [entry |-> entry, call |-> call, path |-> path]

MainIdle ==
    /\ apps = <<>>
    /\ results = <<>>
    /\ policy = "unset"
    /\ plan = <<>>
    /\ out = {}
    /\ status = None

\* the filesystems a removal may start from
RemoverFilesystems ==
    { [p \in {PAlias, PExtra} |-> IF p = PAlias THEN alias ELSE extra] :
        alias \in {Absent, Symlink(PExtra)},
        extra \in {Absent, File(FALSE), File(TRUE), Dir(FALSE)} }

\* the plan entries a caller may hand to remove: an enabled entry of every kind at
\* either path, a disabled entry at either path, and an entry marked missing
RemoverEntries ==
    { [app_name |-> AppAb, path |-> e.path, kind |-> e.kind, category |-> "other",
       scope |-> "configured", exists |-> e.exists, writable |-> None,
       removal_safety |-> "review", notes |-> <<>>, removal_instructions |-> <<>>,
       enabled |-> e.enabled] :
        e \in { x \in [path : {PAlias, PExtra},
                       kind : {"file", "directory", "symlink", "unknown"},
                       exists : BOOLEAN, enabled : BOOLEAN] :
                    /\ x.exists => x.kind # "unknown"
                    /\ (x.exists /\ ~x.enabled) =>
                          x.kind = (IF x.path = PAlias THEN "symlink" ELSE "directory")
                    /\ ~x.exists => (x.kind = "unknown" /\ x.enabled /\ x.path = PExtra) } }

RemoverFlags == [dry_run : BOOLEAN, prompt : BOOLEAN, force : BOOLEAN,
                 stop_on_error : BOOLEAN]

\* the state at the call of ArtifactRemover.remove(entries, **flags)
InitRemove ==
    /\ fs \in RemoverFilesystems
    /\ fs0 = fs
    /\ MainIdle
    /\ entries \in UNION { [1..n -> RemoverEntries] : n \in 1..MaxEntries }
    /\ flags \in RemoverFlags
    /\ idx = 1
    /\ op = "none"
    /\ pc = "loop"
    /\ succeeded = <<>>
    /\ failed = <<>>
    /\ skipped = <<>>
    /\ calls = {}
    /\ raced = {}
    /\ libcall = <<>>

\* a failure taken for a removal
FailReportedAsSuccess(message) ==
    /\ succeeded' = Append(succeeded, idx)
    /\ IF breaks(flags)
       THEN pc' = "done" /\ idx' = idx
       ELSE pc' = "loop" /\ idx' = idx + 1
    /\ op' = "none"
    /\ UNCHANGED <<failed, skipped>>

\* the except branch of remove: record the failure, then break or go on
Fail(message) ==
    /\ failed' = Append(failed, <<idx, message>>)
    /\ IF breaks(flags)
       THEN pc' = "done" /\ idx' = idx
       ELSE pc' = "loop" /\ idx' = idx + 1
    /\ op' = "none"
    /\ UNCHANGED <<succeeded, skipped>>

\* what input() gave for position i: whether the answer, stripped and in lower
\* case, was "y" or "yes"
Answer(i, response) ==
    [kind |-> "input", text |-> <<ToString(i), IF confirmed(response) THEN "yes" ELSE "no">>]

\* the head of the loop, up to the call of _python_remove; the user is asked
\* only about an entry that passed "(enabled or force) and exists"
Gate ==
    /\ pc = "loop"
    /\ idx <= Len(entries)
    /\ \E response \in Responses :
          LET outcome == gate(entries[idx], flags, response)
              asked == /\ flags.prompt
                       /\ (entries[idx].enabled \/ flags.force) /\ entries[idx].exists
          IN  /\ out' = IF asked THEN out \cup {Answer(idx, response)} ELSE out
              /\ CASE outcome = "skip" ->
                     /\ skipped' = Append(skipped, idx)
                     /\ idx' = idx + 1
                     /\ UNCHANGED <<pc, succeeded>>
                [] outcome = "dry-run" ->
                     /\ succeeded' = Append(succeeded, idx)
                     /\ idx' = idx + 1
                     /\ UNCHANGED <<pc, skipped>>
                [] outcome = "attempt" ->
                     /\ pc' = "check"
                     /\ UNCHANGED <<idx, succeeded, skipped>>
    /\ UNCHANGED <<fs, fs0, apps, results, policy, plan, entries, flags, op,
                   failed, calls, raced>>
    /\ UNCHANGED <<libcall, status>>

\* the loop is exhausted: remove returns the report
Return ==
    /\ pc = "loop"
    /\ idx > Len(entries)
    /\ pc' = "done"
    /\ UNCHANGED <<fs, fs0, apps, results, policy, plan, entries, flags, idx, op,
                   succeeded, failed, skipped, calls, raced>>
    /\ UNCHANGED <<libcall, out, status>>

\* _python_remove: "if not path.exists() and not path.is_symlink(): raise"
CheckExists ==
    /\ pc = "check"
    /\ IF ~exists(fs, entries[idx].path) /\ ~is_symlink(fs, entries[idx].path)
       THEN Fail("FileNotFoundError")
       ELSE /\ pc' = "chmod"
            /\ UNCHANGED <<idx, op, succeeded, failed, skipped>>
    /\ UNCHANGED <<fs, fs0, apps, results, policy, plan, entries, flags, calls, raced>>
    /\ UNCHANGED <<libcall, out, status>>

\* make_writable_best_effort: stat and chmod both follow a link; a failure of
\* either is swallowed
MakeWritable ==
    /\ pc = "chmod"
    /\ LET path == entries[idx].path
           node == resolve(fs, path)
       IN  \/ /\ stat(fs, path).ok
              /\ fs' = [fs EXCEPT ![node].uw = TRUE]
              /\ calls' = calls \cup {Call(idx, "chmod", node)}
           \/ /\ UNCHANGED <<fs, calls>>
    /\ pc' = "decide"
    /\ UNCHANGED <<fs0, apps, results, policy, plan, entries, flags, idx, op,
                   succeeded, failed, skipped, raced>>
    /\ UNCHANGED <<libcall, out, status>>

\* _python_remove: the choice between os.unlink and shutil.rmtree
Decide ==
    /\ pc = "decide"
    /\ op' = removal_call(fs, entries[idx])
    /\ pc' = "remove"
    /\ UNCHANGED <<fs, fs0, apps, results, policy, plan, entries, flags, idx,
                   succeeded, failed, skipped, calls, raced>>
    /\ UNCHANGED <<libcall, out, status>>

\* a removal call that reports success and leaves the path where it is
RemoveCallLeavingThePath ==
    /\ pc = "remove"
    /\ LET path == entries[idx].path
           outcomes == IF op = "rmtree" THEN rmtree_outcomes(Lookup(fs, path))
                       ELSE unlink_outcomes(Lookup(fs, path))
       IN  \E outcome \in outcomes :
              IF outcome = "ok"
              THEN /\ calls' = calls \cup {Call(idx, op, path)}
                   /\ succeeded' = Append(succeeded, idx)
                   /\ idx' = idx + 1
                   /\ pc' = "loop"
                   /\ op' = "none"
                   /\ UNCHANGED <<fs, failed, skipped>>
              ELSE /\ Fail(outcome)
                   /\ UNCHANGED <<fs, calls>>
    /\ UNCHANGED <<fs0, apps, results, policy, plan, entries, flags, raced>>
    /\ UNCHANGED <<libcall, out, status>>

\* the removal call itself, and what remove does with its outcome
RemoveCall ==
    /\ pc = "remove"
    /\ LET path == entries[idx].path
           outcomes == IF op = "rmtree" THEN rmtree_outcomes(Lookup(fs, path))
                       ELSE unlink_outcomes(Lookup(fs, path))
       IN  \E outcome \in outcomes :
              IF outcome = "ok"
              THEN /\ fs' = [fs EXCEPT ![path] = Absent]
                   /\ calls' = calls \cup {Call(idx, op, path)}
                   /\ succeeded' = Append(succeeded, idx)
                   /\ idx' = idx + 1
                   /\ pc' = "loop"
                   /\ op' = "none"
                   /\ UNCHANGED <<failed, skipped>>
              ELSE /\ Fail(outcome)
                   /\ UNCHANGED <<fs, calls>>
    /\ UNCHANGED <<fs0, apps, results, policy, plan, entries, flags, raced>>
    /\ UNCHANGED <<libcall, out, status>>

\* another process deletes a path while remove is running
ExternalDelete ==
    /\ pc # "done"
    /\ \E p \in DOMAIN fs :
          /\ lexists(fs, p)
          /\ fs' = [fs EXCEPT ![p] = Absent]
          /\ raced' = raced \cup {i \in idx..Len(entries) : entries[i].path = p}
    /\ UNCHANGED <<fs0, apps, results, policy, plan, pc, entries, flags, idx, op,
                   succeeded, failed, skipped, calls>>
    /\ UNCHANGED <<libcall, out, status>>

NextRemove == Gate \/ Return \/ CheckExists \/ MakeWritable \/ Decide \/ RemoveCall

\* remove on a filesystem nothing else touches
SpecRemove == InitRemove /\ [][NextRemove]_vars

NextRace == NextRemove \/ ExternalDelete

\* a call of remove that is not a dry run and asks no confirmation
InitRace == InitRemove /\ ~flags.dry_run /\ ~flags.prompt

\* remove racing with another process that deletes paths
SpecRace == InitRace /\ [][NextRace]_vars

----------------------------------------------------------------------------
(* Properties of the scanner and the planner, checked under Spec *)

Scanned == 1..Len(results)

\* the scan that has just returned: every scan is the last one in the state it
\* returns to, and building the plan leaves the results as they are
LastScanned == IF pc = "scan" /\ results # <<>> THEN {Len(results)} ELSE {}

\* the candidates the scan of application k ran over
CandidatesOf(k) ==
    build_candidates(fs, apps[k],
                     apps[k].deep_home_search \/ deep_home_search_default).candidates

Classification(x) ==
    <<x.category, x.scope, x.removal_safety, x.notes>>

\* C1: an artifact of a ScanResult with exists = FALSE has scope configured; every
\* artifact of scope default, system or discovered has exists = TRUE.
C1_MissingOnlyIfConfigured ==
    \A k \in Scanned : \A i \in 1..Len(results[k].artifacts) :
        LET a == results[k].artifacts[i]
        IN  /\ ~a.exists => a.scope = "configured"
            /\ a.scope \in {"default", "system", "discovered"} => a.exists

\* a scan that reports a missing configured location beside an existing default one
C1_Witness ==
    \E k \in Scanned :
        /\ \E i \in 1..Len(results[k].artifacts) :
              ~results[k].artifacts[i].exists /\ results[k].artifacts[i].scope = "configured"
        /\ \E i \in 1..Len(results[k].artifacts) :
              results[k].artifacts[i].exists /\ results[k].artifacts[i].scope = "default"
        /\ \E c \in Range(CandidatesOf(k)) :
              c.scope = "system" /\ ~exists(fs, c.path)

\* C2: no two artifacts of one ScanResult have the same path; every candidate whose
\* canonical path exists is represented by exactly one artifact, which carries the
\* category, scope, removal safety and notes of the earliest candidate (in candidate
\* order) with that canonical path; a dropped occurrence adds no error.
C2_OneArtifactPerCanonicalPath ==
    \A k \in LastScanned :
        LET arts == results[k].artifacts
            cands == CandidatesOf(k)
            keys == List([c \in 1..Len(cands) |-> resolve(fs, cands[c].path)])
        IN  /\ \A i, j \in 1..Len(arts) : arts[i].path = arts[j].path => i = j
            /\ \A c \in 1..Len(cands) :
                  exists(fs, cands[c].path) =>
                      LET first == CHOOSE m \in 1..c :
                                      /\ keys[m] = keys[c]
                                      /\ \A n \in 1..(m - 1) : keys[n] # keys[c]
                          hits == {i \in 1..Len(arts) : arts[i].path = keys[c]}
                      IN  /\ Cardinality(hits) = 1
                          /\ \A i \in hits :
                                Classification(arts[i]) = Classification(cands[first])
            /\ \A e1, e2 \in 1..Len(results[k].errors) :
                  /\ results[k].errors[e1].kind = "metadata"
                  /\ results[k].errors[e1] = results[k].errors[e2]
                  => e1 = e2

\* a link and its target are both configured, the target exists, and the one artifact
\* reported for it is classified as the first of the two
C2_Witness ==
    \E k \in Scanned :
        /\ apps[k].additional_locations = <<PAlias, PExtra>>
        /\ is_symlink(fs, PAlias) /\ exists(fs, PExtra)
        /\ ~is_symlink(fs, PCache)
        /\ \E i \in 1..Len(results[k].artifacts) :
              /\ results[k].artifacts[i].path = PExtra
              /\ results[k].artifacts[i].notes = <<"Configured additional location">>

\* C3 as claimed: every configured additional location has an artifact at its
\* canonical path, with exists = FALSE when the location is not there.
C3_EveryLocationReported ==
    \A k \in Scanned : \A l \in 1..Len(apps[k].additional_locations) :
        LET location == apps[k].additional_locations[l]
        IN  \E i \in 1..Len(results[k].artifacts) :
                /\ results[k].artifacts[i].path = resolve(fs, location)
                /\ ~exists(fs, location) => ~results[k].artifacts[i].exists

Planned == pc = "planned"

Artifacts == flatten_artifacts(results)

\* the positions of the enabled entries of the plan, in plan order
EnabledPositions == SelectSeq([i \in 1..Len(plan) |-> i], LAMBDA i : plan[i].enabled)

\* C4: without a caller-supplied policy an entry is enabled iff its artifact exists
\* and is safe: an existing cache artifact is among enabled_entries(), a caution
\* artifact is not, turning an existing safe artifact to caution disables its entry,
\* and enabled_entries() is the enabled entries in plan order.
C4_DefaultPolicy ==
    (Planned /\ policy = "None") =>
        /\ Len(plan) = Len(Artifacts)
        /\ \A i \in 1..Len(plan) :
              /\ plan[i].enabled <=>
                    (Artifacts[i].exists /\ Artifacts[i].removal_safety = "safe")
              /\ (Artifacts[i].category = "cache" /\ Artifacts[i].exists)
                    => plan[i] \in Range(enabled_entries(plan))
              /\ Artifacts[i].removal_safety = "caution"
                    => plan[i] \notin Range(enabled_entries(plan))
              /\ (Artifacts[i].exists /\ Artifacts[i].removal_safety = "safe") =>
                    ~from_scan_results(
                        <<[results[1] EXCEPT !.artifacts =
                              <<[Artifacts[i] EXCEPT !.removal_safety = "caution"]>>]>>,
                        "None")[1].enabled
        /\ Len(enabled_entries(plan)) = Len(EnabledPositions)
        /\ \A n \in 1..Len(EnabledPositions) :
              enabled_entries(plan)[n] = plan[EnabledPositions[n]]

\* a default plan with an enabled cache entry and a disabled preferences entry
C4_Witness ==
    /\ Planned /\ policy = "None"
    /\ \E i \in 1..Len(plan) :
          plan[i].category = "cache" /\ plan[i].exists /\ plan[i].enabled
    /\ \E i \in 1..Len(plan) :
          plan[i].category = "preferences" /\ plan[i].exists /\ ~plan[i].enabled

\* C5: with a caller-supplied policy every artifact has one entry; its enabled flag
\* is the policy's result, or the default value (exists and safe) when the policy
\* raises for that artifact, whatever the policy does for the other artifacts.
C5_PolicyFallback ==
    (Planned /\ policy # "None") =>
        /\ Len(plan) = Len(Artifacts)
        /\ \A i \in 1..Len(plan) :
              /\ plan[i].path = Artifacts[i].path
              /\ plan[i].app_name = Artifacts[i].app_name
              /\ call_policy(policy, Artifacts[i]) = "True" => plan[i].enabled
              /\ call_policy(policy, Artifacts[i]) = "False" => ~plan[i].enabled
              /\ call_policy(policy, Artifacts[i]) = "raise" =>
                    (plan[i].enabled <=>
                        (Artifacts[i].exists /\ Artifacts[i].removal_safety = "safe"))

\* a policy that raised for a safe existing artifact, whose entry is enabled by the
\* fallback, and answered for another artifact of the same plan
C5_Witness ==
    /\ Planned /\ policy # "None"
    /\ \E i, j \in 1..Len(plan) :
          /\ call_policy(policy, Artifacts[i]) = "raise"
          /\ plan[i].enabled
          /\ call_policy(policy, Artifacts[j]) = "False"
          /\ ~plan[j].enabled /\ Artifacts[j].exists

----------------------------------------------------------------------------
(* Properties of ArtifactRemover.remove, checked under SpecRemove and SpecRace *)

Done == pc = "done"

Positions == 1..Len(entries)

SucceededSet == Range(succeeded)
FailedSet == {failed[k][1] : k \in 1..Len(failed)}
SkippedSet == Range(skipped)

\* in how many of the three lists of the report position i occurs
Occurrences(i) ==
    Cardinality({k \in 1..Len(succeeded) : succeeded[k] = i})
    + Cardinality({k \in 1..Len(failed) : failed[k][1] = i})
    + Cardinality({k \in 1..Len(skipped) : skipped[k] = i})

\* the position at which the batch was broken off; 0 when it was not
BrokenAt == IF flags.stop_on_error /\ failed # <<>> THEN failed[1][1] ELSE 0

\* C6 as claimed: whatever the flags, every entry passed in is in exactly one of
\* succeeded, failed and skipped when remove returns.
C6_ReportCoversEveryEntry ==
    Done => \A i \in Positions : Occurrences(i) = 1

\* C6, amended: no entry is ever in two lists of the report; when remove returns,
\* every entry is in exactly one list unless stop_on_error broke the batch off, and
\* then the entries up to the failed one are in exactly one list and the later
\* entries in none.
C6_ReportPartitionsProcessed ==
    /\ \A i \in Positions : Occurrences(i) <= 1
    /\ Done =>
          \A i \in Positions :
              Occurrences(i) = IF BrokenAt # 0 /\ i > BrokenAt THEN 0 ELSE 1

\* a batch broken off at its first entry, the second entry in no list
C6_Witness ==
    /\ Done /\ BrokenAt = 1 /\ Len(entries) = 2
    /\ Occurrences(1) = 1 /\ Occurrences(2) = 0
    /\ gate(entries[2], flags, <<"y">>) = "attempt"

\* the filesystem calls issued for the entries after position i
CallsAfter(i) == {c \in calls : c.entry > i}

IsIncreasing(s) == \A k \in 1..(Len(s) - 1) : s[k] < s[k + 1]

C8_LinkTargetUntouched ==
    \A i \in SucceededSet :
        LET path == entries[i].path
            target == Lookup(fs0, path).target
        IN  (/\ ~flags.dry_run
             /\ is_symlink(fs0, path)
             /\ \A j \in Positions : entries[j].path # target)
            => /\ ~lexists(fs, path)
               /\ Lookup(fs, target) = Lookup(fs0, target)

\* whether remove lets position i past the gate, the prompt aside
ShouldAttempt(i) == (entries[i].enabled \/ flags.force) /\ entries[i].exists

\* C9: a dry run changes nothing on the filesystem and issues no chmod, unlink or
\* rmtree; failed stays empty; every entry that passes the gate is reported in
\* succeeded, also when its path is not on disk.
C9_DryRunTouchesNothing ==
    flags.dry_run =>
        /\ fs = fs0
        /\ calls = {}
        /\ failed = <<>>
        /\ pc \in {"loop", "done"}
        /\ SucceededSet \subseteq {i \in Positions : ShouldAttempt(i)}
        /\ Done =>
              /\ \A i \in Positions : ~ShouldAttempt(i) => i \in SkippedSet
              /\ ~flags.prompt => SucceededSet = {i \in Positions : ShouldAttempt(i)}
              /\ SucceededSet \cup SkippedSet = Positions

\* a finished dry run that reports as succeeded an entry whose path is not on disk,
\* beside a path that is still there
C9_Witness ==
    /\ Done /\ flags.dry_run
    /\ \E i \in SucceededSet : ~lexists(fs, entries[i].path)
    /\ \E i \in SucceededSet : lexists(fs, entries[i].path)

\* the removal calls that went through for position i
RemovalsFor(i) == {c \in calls : c.entry = i /\ c.call \in {"unlink", "rmtree"}}

\* C10: an entry whose path another process deleted before remove was through
\* with it is, in a run that is not a dry run, never in succeeded; if it was
\* attempted it is in failed with FileNotFoundError; no removal call went through
\* for it; and without stop_on_error the batch still runs to its last entry.
C10_DeletedUnderneath ==
    ~flags.dry_run =>
        /\ \A i \in raced :
              /\ i \notin SucceededSet
              /\ \A k \in 1..Len(failed) :
                    failed[k][1] = i => failed[k][2] = "FileNotFoundError"
              /\ (i < idx \/ Done) /\ (BrokenAt = 0 \/ i <= BrokenAt)
                    => i \in FailedSet \cup SkippedSet
              /\ i \in SkippedSet => Occurrences(i) = 1
              /\ RemovalsFor(i) = {}
        /\ (Done /\ ~flags.stop_on_error) =>
              SucceededSet \cup FailedSet \cup SkippedSet = Positions

\* the path of the first entry was deleted after remove had checked that it exists
\* and made it writable; the entry failed as not found and the second entry was
\* still removed
C10_Witness ==
    /\ Done /\ ~flags.dry_run /\ ~flags.stop_on_error
    /\ 1 \in raced
    /\ Call(1, "chmod", entries[1].path) \in calls
    /\ failed # <<>> /\ failed[1] = <<1, "FileNotFoundError">>
    /\ 2 \in SucceededSet

----------------------------------------------------------------------------
(* Further properties of the scanner, checked under Spec *)

\* the scan of configuration c on the present filesystem with deep home search
\* switched on or off, everything else as configured
ScanWithDeep(c, deep) ==
    scan(fs, [c EXCEPT !.deep_home_search = deep], deep_home_search_default)

\* C11: on one filesystem, every artifact of the scan without deep home search is,
\* field for field, an artifact of the scan with it; what the deep scan has beyond
\* that is of scope discovered.
C11_DeepScanOnlyAdds ==
    \A k \in LastScanned :
        LET shallow == IF apps[k].deep_home_search
                       THEN ScanWithDeep(apps[k], FALSE).artifacts
                       ELSE results[k].artifacts
            deeper == IF apps[k].deep_home_search
                      THEN results[k].artifacts
                      ELSE ScanWithDeep(apps[k], TRUE).artifacts
        IN  /\ Range(shallow) \subseteq Range(deeper)
            /\ \A a \in Range(deeper) \ Range(shallow) : a.scope = "discovered"
            /\ \A a \in Range(deeper) :
                  \A b \in Range(shallow) : a.path = b.path => a = b

\* a deep scan that reports a discovered artifact beside the artifacts of the scan
\* without deep search, one of which the home walk met as well
C11_Witness ==
    \E k \in Scanned :
        /\ apps[k].deep_home_search
        /\ \E a \in Range(results[k].artifacts) : a.scope = "discovered"
        /\ \E a \in Range(results[k].artifacts) :
              /\ a.scope = "default" /\ a.path = PCache
              /\ a \in Range(ScanWithDeep(apps[k], FALSE).artifacts)
              /\ PCache \in Range(walk_matches(fs, apps[k].name,
                                               Home \o <<"Library", "Caches">>))

\* the errors of result k that say that a pattern matched nothing
PatternErrors(k, text) ==
    {e \in 1..Len(results[k].errors) :
        /\ results[k].errors[e].kind = "pattern"
        /\ results[k].errors[e].pattern = text}

\* C12: a configured pattern that matches no path leaves exactly one error, which
\* names the pattern, and no artifact; the scan returns the artifacts it returns
\* without the pattern.  A pattern that matches leaves no such error.
C12_UnmatchedPatternIsAnError ==
    \A k \in LastScanned : \A i \in 1..Len(apps[k].patterns) :
        LET pattern == apps[k].patterns[i]
            without == scan(fs, [apps[k] EXCEPT !.patterns = <<>>],
                            deep_home_search_default)
        IN  IF iglob(fs, pattern) = <<>>
            THEN /\ Cardinality(PatternErrors(k, pattern.text)) = 1
                 /\ results[k].artifacts = without.artifacts
                 /\ \A a \in Range(results[k].artifacts) :
                       a.notes # <<"Matched configured pattern">>
                 /\ results[k].app_name = apps[k].name
            ELSE PatternErrors(k, pattern.text) = {}

\* a scan whose pattern matched nothing and which still reports an artifact found
\* at a default location
C12_Witness ==
    \E k \in Scanned :
        /\ apps[k].patterns = <<GlobOpt>>
        /\ iglob(fs, GlobOpt) = <<>>
        /\ Cardinality(PatternErrors(k, GlobOpt.text)) = 1
        /\ \E a \in Range(results[k].artifacts) : a.exists /\ a.scope = "default"

----------------------------------------------------------------------------
(* Library calls made on their own: the arguments are drawn at the start, the *)
(* call is one step                                                           *)

\* nothing but the call is going on
LibraryIdle ==
    /\ fs = <<>>
    /\ fs0 = fs
    /\ MainIdle
    /\ RemoverIdle

\* the call returns
Return_(result) ==
    /\ pc = "call"
    /\ libcall' = [libcall EXCEPT !.result = Some(result)]
    /\ pc' = "returned"
    /\ UNCHANGED <<fs, fs0, apps, results, policy, plan, entries, flags, idx, op,
                   succeeded, failed, skipped, calls, raced, out, status>>

Returned == pc = "returned"

\* how many names of one kind match in one directory of the walk
WalkCounts == {0, 1, 499, 500}

\* the matching paths os.walk meets at its step r: dirs directories, then files files
WalkStep(r, dirs, files) ==
    [i \in 1..(dirs + files) |->
        Path(Home \o <<ToString(r)>>,
             <<"a", "b", IF i <= dirs THEN "d" ELSE "f", ToString(i)>>)]

\* a home directory, as the numbers of matching directories and files per step
WalkListings == UNION { [1..n -> WalkCounts \X WalkCounts] : n \in 1..MaxSteps }

InitWalk ==
    /\ LibraryIdle
    /\ pc = "call"
    /\ libcall \in { [fn |-> "_deep_home_candidates", listing |-> listing, result |-> None] :
                        listing \in WalkListings }

\* Scanner._deep_home_candidates over the listing
DeepHomeWalk ==
    /\ libcall.fn = "_deep_home_candidates"
    /\ Return_(deep_home_matches(
           [r \in 1..Len(libcall.listing) |->
               WalkStep(r, libcall.listing[r][1], libcall.listing[r][2])]))

SpecWalk == InitWalk /\ [][DeepHomeWalk]_vars

RECURSIVE Sum(_)
Sum(ns) == IF ns = <<>> THEN 0 ELSE Head(ns) + Sum(Tail(ns))

\* the number of matching names the home directory of the call holds
MatchingNames ==
    Sum([r \in 1..Len(libcall.listing) |-> libcall.listing[r][1] + libcall.listing[r][2]])

Truncations == {e \in 1..Len(libcall.result[1].errors) :
                    libcall.result[1].errors[e].kind = "truncated"}

\* C13 as claimed: the walk yields at most 500 candidates, all discovered; the
\* truncation error is there once when the home directory holds more than 500
\* matching names and is not there when it holds 500 or fewer.
C13_TruncationOnlyBeyondCap ==
    (Returned /\ libcall.fn = "_deep_home_candidates") =>
        /\ Len(libcall.result[1].candidates) <= 500
        /\ \A i \in 1..Len(libcall.result[1].candidates) :
              libcall.result[1].candidates[i].scope = "discovered"
        /\ MatchingNames > 500 => Cardinality(Truncations) = 1
        /\ MatchingNames <= 500 => Truncations = {}

\* what the walk does: the error is there once as soon as the home directory holds
\* 500 matching names, and the candidates are the first 500 matches
C13_TruncationAtCap ==
    (Returned /\ libcall.fn = "_deep_home_candidates") =>
        /\ Len(libcall.result[1].candidates) = IF MatchingNames >= 500 THEN 500
                                               ELSE MatchingNames
        /\ \A i \in 1..Len(libcall.result[1].candidates) :
              libcall.result[1].candidates[i].scope = "discovered"
        /\ MatchingNames >= 500 => Cardinality(Truncations) = 1
        /\ MatchingNames < 500 => Truncations = {}

----------------------------------------------------------------------------
(* Artifact: the copy-on-write operations.  Artifacts are objects: heap is the *)
(* sequence of the Artifact objects alive, an object is known by its position  *)

\* replace(self, exists=False)
mark_missing(heap, self) ==
    [heap |-> Append(heap, [heap[self] EXCEPT !.exists = FALSE]), id |-> Len(heap) + 1]

\* replace(self, ...): an argument left at None keeps the field
with_metadata(heap, self, exists_, writable, size_bytes, last_modified) ==
    [heap |-> Append(heap,
         [heap[self] EXCEPT
             !.exists = IF exists_ = None THEN @ ELSE exists_[1],
             !.writable = IF writable = None THEN @ ELSE writable,
             !.size_bytes = IF size_bytes = None THEN @ ELSE size_bytes,
             !.last_modified = IF last_modified = None THEN @ ELSE last_modified]),
     id |-> Len(heap) + 1]

\* "if not notes: return self", else replace(self, notes=self.notes + notes)
with_notes(heap, self, notes) ==
    IF notes = <<>> THEN [heap |-> heap, id |-> self]
    ELSE [heap |-> Append(heap, [heap[self] EXCEPT !.notes = @ \o notes]),
          id |-> Len(heap) + 1]

with_removal_instructions(heap, self, instructions) ==
    IF instructions = <<>> THEN [heap |-> heap, id |-> self]
    ELSE [heap |-> Append(heap,
              [heap[self] EXCEPT !.removal_instructions = @ \o instructions]),
          id |-> Len(heap) + 1]

\* the artifacts Scanner.scan returns on the filesystems of the model
ScannedArtifacts ==
    UNION { Range(scan(f, c, deep_home_search_default).artifacts) :
                f \in ScanFilesystems, c \in AppConfigurations }

InitArtifact ==
    /\ LibraryIdle
    /\ pc = "call"
    /\ libcall \in { [fn |-> "Artifact", heap |-> <<a>>, op |-> "scan", self |-> 1,
                      before |-> a, id |-> 1] : a \in ScannedArtifacts }

\* one of the operations is called on the object self and returns the object id
Derive(name, self, made) ==
    /\ libcall' = [libcall EXCEPT !.heap = made.heap, !.op = name, !.self = self,
                                  !.before = libcall.heap[self], !.id = made.id]
    /\ UNCHANGED <<fs, fs0, apps, results, policy, plan, pc, entries, flags, idx, op,
                   succeeded, failed, skipped, calls, raced, out, status>>

Receivers == IF Len(libcall.heap) <= MaxDerived THEN 1..Len(libcall.heap) ELSE {}

MarkMissing ==
    /\ libcall.fn = "Artifact"
    /\ \E self \in Receivers : Derive("mark_missing", self, mark_missing(libcall.heap, self))

WithMetadata ==
    /\ libcall.fn = "Artifact"
    /\ \E self \in Receivers :
          \E exists_ \in {None, Some(TRUE), Some(FALSE)},
             writable \in {None, Some(TRUE)},
             size_bytes \in {None, Some(5)},
             last_modified \in {None, Some(9)} :
              Derive("with_metadata", self,
                     with_metadata(libcall.heap, self, exists_, writable, size_bytes,
                                   last_modified))

WithNotes ==
    /\ libcall.fn = "Artifact"
    /\ \E self \in Receivers : \E notes \in {<<>>, <<"note">>} :
          Derive("with_notes", self, with_notes(libcall.heap, self, notes))

WithRemovalInstructions ==
    /\ libcall.fn = "Artifact"
    /\ \E self \in Receivers : \E instructions \in {<<>>, <<"rm">>} :
          Derive("with_removal_instructions", self,
                 with_removal_instructions(libcall.heap, self, instructions))

NextArtifact == MarkMissing \/ WithMetadata \/ WithNotes \/ WithRemovalInstructions

SpecArtifact == InitArtifact /\ [][NextArtifact]_vars

\* C14 as claimed: every artifact a scan returned, and every artifact derived from
\* it by the copy-on-write operations, has a size only if it exists and is a regular
\* file; the operation just called left the artifact it was called on as it was.
C14_SizeOnlyForExistingFiles ==
    libcall.fn = "Artifact" =>
        /\ \A i \in 1..Len(libcall.heap) :
              libcall.heap[i].size_bytes # None =>
                  (libcall.heap[i].exists /\ libcall.heap[i].kind = "file")
        /\ libcall.heap[libcall.self] = libcall.before

\* what holds of the operations: the artifacts a scan returns have a size only if
\* they exist and are regular files, and no operation changes its receiver
C14_ScanAndReceivers ==
    libcall.fn = "Artifact" =>
        /\ libcall.heap[1].size_bytes # None =>
              (libcall.heap[1].exists /\ libcall.heap[1].kind = "file")
        /\ libcall.heap[libcall.self] = libcall.before

----------------------------------------------------------------------------
(* The name and bundle-identifier candidates of an application name *)

NameChars == {"A", "b", "1", " ", "-", "."}

RECURSIVE Strings(_, _)
\* the strings over chars of length at most n
Strings(chars, n) ==
    IF n = 0 THEN {<<>>}
    ELSE LET shorter == Strings(chars, n - 1)
         IN  shorter \cup {Append(s, c) : s \in shorter, c \in chars}

PdfExpert == <<"P", "D", "F", " ", "E", "x", "p", "e", "r", "t">>

\* application names as the configuration delivers them, trimmed (name.strip());
\* the empty name stands for a name left blank on the command line
AppNames ==
    {n \in Strings(NameChars, MaxNameLen) : strip(n, Whitespace) = n}
    \cup {PdfExpert, <<"A", "b">> \o DotApp, <<"A", " ">> \o DotApp,
          ComDot \o <<"a", "b">>}

InitNames ==
    /\ LibraryIdle
    /\ pc = "call"
    /\ libcall \in { [fn |-> "_name_candidates", app_name |-> n, result |-> None] :
                        n \in AppNames }

\* _default_candidates: names = self._name_candidates(app_name);
\* bundles = self._bundle_candidates(app_name, names)
GenerateNames ==
    /\ libcall.fn = "_name_candidates"
    /\ LET names == name_candidates(libcall.app_name)
       IN  Return_([names |-> names,
                    bundles |-> bundle_candidates(libcall.app_name, names)])

SpecNames == InitNames /\ [][GenerateNames]_vars

NamesReturned == Returned /\ libcall.fn = "_name_candidates"

\* C15 as claimed: whatever the application name, the compact token, which comes
\* first among the bundle-identifier candidates, is made of lower-case letters and
\* digits only.
C15_CompactTokenIsLowerAlnum ==
    NamesReturned =>
        LET bundles == libcall.result[1].bundles
        IN  bundles # <<>> =>
                \A i \in 1..Len(bundles[1]) : IsLowerAlnum(bundles[1][i])

\* what holds of the compact token: it is lower-case alphanumeric, and first among
\* the bundle candidates, when the name has a letter or a digit
C15_CompactTokenOfAlnumNames ==
    (NamesReturned /\ sub_non_alnum(libcall.app_name) # <<>>) =>
        LET bundles == libcall.result[1].bundles
        IN  /\ bundles # <<>>
            /\ bundles[1] = lower(sub_non_alnum(libcall.app_name))
            /\ \A i \in 1..Len(bundles[1]) : IsLowerAlnum(bundles[1][i])

\* a candidate list as _unique leaves it: no value twice, none empty or blank,
\* every value trimmed
IsClean(list) ==
    /\ \A i, j \in 1..Len(list) : list[i] = list[j] => i = j
    /\ \A i \in 1..Len(list) :
          /\ list[i] # <<>>
          /\ \E k \in 1..Len(list[i]) : list[i][k] \notin Whitespace
          /\ list[i][1] \notin Whitespace
          /\ list[i][Len(list[i])] \notin Whitespace

\* where the value v is first seen, trimmed, in the list raw (0: nowhere)
FirstSeen(raw, v) ==
    IF \E k \in 1..Len(raw) : strip(raw[k], Whitespace) = v
    THEN CHOOSE k \in 1..Len(raw) :
            /\ strip(raw[k], Whitespace) = v
            /\ \A m \in 1..(k - 1) : strip(raw[m], Whitespace) # v
    ELSE 0

\* list holds the non-blank values of raw, trimmed, in the order they are first seen
InFirstSeenOrder(raw, list) ==
    /\ Range(list) = {strip(raw[k], Whitespace) : k \in 1..Len(raw)} \ {<<>>}
    /\ \A i, j \in 1..Len(list) :
          i < j => FirstSeen(raw, list[i]) < FirstSeen(raw, list[j])

\* C16: the name candidates and the bundle-identifier candidates hold no value
\* twice, no empty or blank value and only trimmed values, in first-seen order of
\* the values generated; the bundle candidates are such a list also when the
\* de-duplicated set comes out empty and the fallback is taken.
C16_CandidateListsAreClean ==
    NamesReturned =>
        LET names == libcall.result[1].names
            bundles == libcall.result[1].bundles
            raw_names == raw_name_candidates(libcall.app_name)
            raw_bundles == raw_bundle_candidates(libcall.app_name, names)
        IN  /\ IsClean(names)
            /\ InFirstSeenOrder(raw_names, names)
            /\ IsClean(bundles)
            /\ (\E k \in 1..Len(raw_bundles) : strip(raw_bundles[k], Whitespace) # <<>>)
                  => InFirstSeenOrder(raw_bundles, bundles)

\* a name whose generated variants repeat and need trimming ("A .app"): the lists
\* are shorter than what was generated
C16_Witness ==
    /\ NamesReturned
    /\ LET names == libcall.result[1].names
           raw_names == raw_name_candidates(libcall.app_name)
       IN  /\ \E i, j \in 1..Len(raw_names) : i # j /\ raw_names[i] = raw_names[j]
           /\ \E i \in 1..Len(raw_names) :
                 raw_names[i] # <<>> /\ strip(raw_names[i], Whitespace) # raw_names[i]
           /\ Len(names) >= 2
           /\ Len(libcall.result[1].bundles) > Len(names)

\* the blank name: no name candidate, and the fallback of the bundle candidates
C16_FallbackTaken ==
    /\ NamesReturned
    /\ unique(raw_bundle_candidates(libcall.app_name, libcall.result[1].names)) = <<>>

\* C17: for a name that is not blank the name candidates hold the name itself, the
\* lower-cased name with "-" for every space and the lower-cased name without its
\* spaces, and the bundle candidates hold "com." followed by the compact token; for
\* "PDF Expert" these are "PDF Expert", "pdf-expert", "pdfexpert" and
\* "com.pdfexpert".  A name of punctuation only still has itself among its name
\* candidates and has bundle candidates.
C17_ExpectedCandidates ==
    (NamesReturned /\ strip(libcall.app_name, Whitespace) # <<>>) =>
        LET name == libcall.app_name
            names == Range(libcall.result[1].names)
            bundles == Range(libcall.result[1].bundles)
        IN  /\ name \in names
            /\ replace(lower(name), " ", <<"-">>) \in names
            /\ replace(lower(name), " ", <<>>) \in names
            /\ ComDot \o compact_token(name) \in bundles
            /\ name = PdfExpert =>
                  /\ <<"p", "d", "f", "-", "e", "x", "p", "e", "r", "t">> \in names
                  /\ <<"p", "d", "f", "e", "x", "p", "e", "r", "t">> \in names
                  /\ ComDot \o <<"p", "d", "f", "e", "x", "p", "e", "r", "t">> \in bundles
            /\ sub_non_alnum(name) = <<>> => bundles # {}

\* the candidates of "PDF Expert" have been generated
C17_Witness ==
    /\ NamesReturned
    /\ libcall.app_name = PdfExpert
    /\ PdfExpert \in Range(libcall.result[1].names)
    /\ ComDot \o <<"p", "d", "f", "e", "x", "p", "e", "r", "t">>
          \in Range(libcall.result[1].bundles)

\* the candidates of a name of punctuation only have been generated
C17_PunctuationOnly ==
    /\ NamesReturned
    /\ libcall.app_name = <<"-", ".">>
    /\ libcall.result[1].bundles # <<>>

----------------------------------------------------------------------------
(* PlanEntry.suggested_command *)

\* str(path) of an absolute path
path_str(p) == Flatten([i \in 1..Len(p.dir) |-> <<"/", p.dir[i]>>]) \o <<"/">> \o p.name

\* shlex.quote leaves a string alone when it is made of these characters only:
\* [\w@%+=:,./-]
IsShellSafe(c) == IsAlnum(c) \/ c \in {"_", "@", "%", "+", "=", ":", ",", ".", "/", "-"}

\* the string between single quotes, a quote inside it left as it is
shell_quote_unescaped(value) ==
    IF value = <<>> THEN <<"'", "'">>
    ELSE IF \A i \in 1..Len(value) : IsShellSafe(value[i]) THEN value
    ELSE <<"'">> \o value \o <<"'">>

\* shlex.quote(value)
shell_quote(value) ==
    IF value = <<>> THEN <<"'", "'">>
    ELSE IF \A i \in 1..Len(value) : IsShellSafe(value[i]) THEN value
    ELSE <<"'">> \o replace(value, "'", <<"'", "\"", "'", "\"", "'">>) \o <<"'">>

RmRf == <<"r", "m", " ", "-", "r", "f", " ">>
RmF == <<"r", "m", " ", "-", "f", " ">>

suggested_command(entry) ==
    LET quoted == shell_quote(path_str(entry.path))
    IN  IF entry.kind = "directory" THEN RmRf \o quoted ELSE RmF \o quoted

PathChars == {"a", " ", "'", "\"", "$"}

\* plan entries of every kind whose path holds spaces, quotes and dollars
CommandEntries ==
    { [app_name |-> AppAb, path |-> Path(<<>>, name), kind |-> kind, category |-> "other",
       scope |-> "configured", exists |-> TRUE, writable |-> None,
       removal_safety |-> "review", notes |-> <<>>, removal_instructions |-> <<>>,
       enabled |-> TRUE] :
        name \in Strings(PathChars, MaxPathLen) \ {<<>>},
        kind \in {"file", "directory", "symlink", "unknown"} }

InitCommand ==
    /\ LibraryIdle
    /\ pc = "call"
    /\ libcall \in { [fn |-> "suggested_command", entry |-> e, result |-> None] :
                        e \in CommandEntries }

SuggestedCommand ==
    /\ libcall.fn = "suggested_command"
    /\ Return_(suggested_command(libcall.entry))

SpecCommand == InitCommand /\ [][SuggestedCommand]_vars

(* How a POSIX shell reads a command line: words are separated by unquoted
   blanks, '...' keeps every character, "..." keeps every character but lets
   $ expand, and an unquoted $ expands too. *)
ShellStart == [words |-> <<>>, word |-> <<>>, inword |-> FALSE, mode |-> "plain", literal |-> TRUE]

ShellStep(st, c) ==
    CASE st.mode = "single" ->
            IF c = "'" THEN [st EXCEPT !.mode = "plain"]
            ELSE [st EXCEPT !.word = @ \o <<c>>]
      [] st.mode = "double" ->
            IF c = "\"" THEN [st EXCEPT !.mode = "plain"]
            ELSE [st EXCEPT !.word = @ \o <<c>>, !.literal = @ /\ c # "$"]
      [] OTHER ->
            IF c = "'" THEN [st EXCEPT !.mode = "single", !.inword = TRUE]
            ELSE IF c = "\"" THEN [st EXCEPT !.mode = "double", !.inword = TRUE]
            ELSE IF c \in Whitespace
                 THEN IF st.inword
                      THEN [st EXCEPT !.words = @ \o <<st.word>>, !.word = <<>>,
                                      !.inword = FALSE]
                      ELSE st
            ELSE [st EXCEPT !.word = @ \o <<c>>, !.inword = TRUE, !.literal = @ /\ c # "$"]

RECURSIVE ShellRead(_, _)
ShellRead(st, s) == IF s = <<>> THEN st ELSE ShellRead(ShellStep(st, Head(s)), Tail(s))

\* the words of a command line, and whether it was read to the end with every
\* quote closed and nothing expanded
ShellParse(command) ==
    LET st == ShellRead(ShellStart, command)
    IN  [words |-> IF st.inword THEN st.words \o <<st.word>> ELSE st.words,
         whole |-> st.mode = "plain" /\ st.literal]

HasPrefix(s, prefix) == Len(s) >= Len(prefix) /\ SubSeq(s, 1, Len(prefix)) = prefix

CommandReturned == Returned /\ libcall.fn = "suggested_command"

\* C18: the suggested command starts with "rm -rf " exactly when the entry is a
\* directory and with "rm -f " for a file, a symlink or an unknown kind, and a
\* shell reads it as rm, the flag and one argument equal to the entry's path,
\* whatever spaces, quotes or dollars the path holds.
C18_CommandHasOneQuotedPath ==
    CommandReturned =>
        LET entry == libcall.entry
            command == libcall.result[1]
            parsed == ShellParse(command)
        IN  /\ HasPrefix(command, RmRf) <=> entry.kind = "directory"
            /\ entry.kind # "directory" => HasPrefix(command, RmF)
            /\ parsed.whole
            /\ parsed.words =
                 << <<"r", "m">>,
                    IF entry.kind = "directory" THEN <<"-", "r", "f">> ELSE <<"-", "f">>,
                    path_str(entry.path) >>

C18_Witness ==
    /\ CommandReturned
    /\ libcall.entry.kind = "directory"
    /\ {" ", "'", "\""} \subseteq Range(libcall.entry.path.name)
    /\ HasPrefix(libcall.result[1], RmRf)

----------------------------------------------------------------------------
(* Further properties of the plan, checked under Spec *)

ArtifactMetadata ==
    {"app_name", "path", "kind", "scope", "category", "removal_safety", "exists",
     "writable", "size_bytes", "last_modified", "notes", "removal_instructions"}

\* the fields of an artifact that PlanEntry has a field for
CarriedMetadata == ArtifactMetadata \cap DOMAIN PlanEntry(Artifacts[1], TRUE)

Carries(entry, artifact, fields) ==
    \A field \in fields : field \in DOMAIN entry /\ entry[field] = artifact[field]

\* C19: the plan has one entry per artifact of every result, in result order and
\* then artifact order, and each entry carries its artifact's application name,
\* path, kind, scope, category, removal safety, exists, writable, size, last
\* modification time, notes and removal instructions.
C19_PlanPreservesMetadata ==
    Planned =>
        /\ Len(plan) = Len(Artifacts)
        /\ \A i \in 1..Len(plan) : Carries(plan[i], Artifacts[i], ArtifactMetadata)

\* as built: one entry per artifact in order, each carrying every field that
\* PlanEntry has, which leaves out the size and the last modification time
C19_PlanPreservesCarriedMetadata ==
    Planned =>
        /\ Len(plan) = Len(Artifacts)
        /\ \A i \in 1..Len(plan) : Carries(plan[i], Artifacts[i], CarriedMetadata)
        /\ Len(plan) >= 1 =>
              ArtifactMetadata \ CarriedMetadata = {"size_bytes", "last_modified"}

----------------------------------------------------------------------------
(* Loading the configuration *)

\* a JSON value: its type and what it holds
Json(type, value) == [type |-> type, value |-> value]
JsonNull == Json("null", <<>>)
JsonInt == Json("int", <<>>)

ConfigurationError(message) == [error |-> Some(message), value |-> <<>>]
Loaded(value) == [error |-> None, value |-> value]

PInstaller == Path(<<"opt">>, <<"i">>)

\* _normalise_path_tuple
normalise_path_tuple(raw) ==
    IF raw.type = "null" THEN Loaded(<<>>)
    ELSE IF raw.type # "list"
    THEN ConfigurationError(<<"'additional_locations' must be a string or list of strings.">>)
    ELSE IF \E i \in 1..Len(raw.value) : raw.value[i].type # "str"
    THEN ConfigurationError(<<"Each additional location must be a string.">>)
    ELSE Loaded([i \in 1..Len(raw.value) |-> raw.value[i].value[1]])

\* _normalise_string_tuple; a pattern is kept with the paths it matches
normalise_string_tuple(raw) ==
    IF raw.type = "null" THEN Loaded(<<>>)
    ELSE IF raw.type # "list"
    THEN ConfigurationError(<<"'patterns' must be a string or a list of strings.">>)
    ELSE IF \E i \in 1..Len(raw.value) : raw.value[i].type # "str"
    THEN ConfigurationError(<<"Each pattern must be a string.">>)
    ELSE Loaded([i \in 1..Len(raw.value) |-> raw.value[i].value[1]])

\* _normalise_optional_path
normalise_optional_path(value) ==
    IF value.type = "null" THEN Loaded(None)
    ELSE IF value.type # "str"
    THEN ConfigurationError(<<"'installation_path' must be a string if provided.">>)
    ELSE Loaded(Some(value.value[1]))

\* AppConfiguration.from_mapping
from_mapping(raw) ==
    LET additional_locations == normalise_path_tuple(raw.additional_locations)
        patterns == normalise_string_tuple(raw.patterns)
        installation_path == normalise_optional_path(raw.installation_path)
    IN  IF raw.name.type # "str" \/ strip(raw.name.value, Whitespace) = <<>>
        THEN ConfigurationError(<<"Each app entry must include a non-empty 'name' string.">>)
        ELSE IF additional_locations.error # None THEN additional_locations
        ELSE IF patterns.error # None THEN patterns
        ELSE IF installation_path.error # None THEN installation_path
        ELSE IF raw.deep_home_search.type \notin {"absent", "bool"}
        THEN ConfigurationError(<<"'deep_home_search' must be a boolean value.">>)
        ELSE Loaded([name |-> strip(raw.name.value, Whitespace),
                     additional_locations |-> additional_locations.value,
                     installation_path |-> installation_path.value,
                     deep_home_search |-> raw.deep_home_search.value = <<"true">>,
                     patterns |-> patterns.value])

\* the loop of load_configuration over the entries of "apps"
RECURSIVE load_entries(_, _, _)
load_entries(apps_payload, index, loaded) ==
    IF index > Len(apps_payload) THEN Loaded(loaded)
    ELSE IF apps_payload[index].type # "object"
    THEN ConfigurationError(<<"App entry at index ", ToString(index - 1),
                              " must be an object.">>)
    ELSE IF from_mapping(apps_payload[index].value[1]).error # None
    THEN from_mapping(apps_payload[index].value[1])
    ELSE load_entries(apps_payload, index + 1,
                      Append(loaded, from_mapping(apps_payload[index].value[1]).value))

\* load_configuration, of the file given as what is found at its path
load_configuration(file) ==
    IF file.kind = "missing" THEN ConfigurationError(<<"Configuration file not found: ">>)
    ELSE IF file.kind = "invalid_json"
    THEN ConfigurationError(<<"Invalid JSON in configuration file ">>)
    ELSE IF file.kind # "object"
    THEN ConfigurationError(<<"Configuration file must contain a JSON object.">>)
    ELSE IF file.apps.type # "list"
    THEN ConfigurationError(<<"Top-level 'apps' key must be a list of app entries.">>)
    ELSE load_entries(file.apps.value, 1, <<>>)

\* load_multiple_configurations and merge_configurations: the first error, or
\* the applications of every file in order
RECURSIVE load_multiple_configurations(_)
load_multiple_configurations(paths) ==
    IF paths = <<>> THEN Loaded(<<>>)
    ELSE IF load_configuration(Head(paths)).error # None
    THEN load_configuration(Head(paths))
    ELSE IF load_multiple_configurations(Tail(paths)).error # None
    THEN load_multiple_configurations(Tail(paths))
    ELSE Loaded(load_configuration(Head(paths)).value
                \o load_multiple_configurations(Tail(paths)).value)

\* build_single_app_configuration
build_single_app_configuration(args) ==
    [name |-> strip(args.app[1], Whitespace),
     additional_locations |-> args.additional_locations,
     installation_path |-> args.installation_path,
     deep_home_search |-> args.deep_home_search,
     patterns |-> args.patterns]

\* load_app_configurations
load_app_configurations(args) ==
    LET missing == SelectSeq([i \in 1..Len(args.input) |-> i],
                             LAMBDA i : args.input[i].kind = "missing")
    IN  IF args.app # None THEN Loaded(<<build_single_app_configuration(args)>>)
        ELSE IF args.input = <<>>
        THEN ConfigurationError(<<"No configuration paths provided via --input.">>)
        ELSE IF missing # <<>>
        THEN ConfigurationError(<<"app-hound could not locate configuration file(s):">>
                                \o [n \in 1..Len(missing) |-> ToString(missing[n])])
        ELSE IF Len(args.input) = 1 THEN load_configuration(args.input[1])
        ELSE load_multiple_configurations(args.input)

----------------------------------------------------------------------------
(* main, from the command line to the completion message *)

\* OutputManager.print: quiet mode drops a message unless it is forced
print_(o, quiet, force, kind, text) ==
    IF quiet /\ ~force THEN o ELSE o \cup {[kind |-> kind, text |-> text]}

\* something main did other than printing
Did(o, kind, text) == o \cup {[kind |-> kind, text |-> text]}

OnTheTrail == <<"app-hound is on the trail!">>
NothingToScan == <<"No applications defined; nothing to scan.">>
FetchComplete == <<"app-hound says: Fetch complete!">>

\* main after the configuration failed to load: the message is printed even in
\* quiet mode, and the run goes on with no application
load_stage_keeps_going(args) ==
    LET loaded == load_app_configurations(args)
        o == print_({}, args.quiet, FALSE, "highlight", OnTheTrail)
    IN  IF loaded.error # None
        THEN [out |-> print_(o, args.quiet, TRUE, "error", loaded.error[1]),
              status |-> None, apps |-> <<>>, pc |-> "installers"]
        ELSE IF loaded.value = <<>>
        THEN [out |-> print_(o, args.quiet, TRUE, "warning", NothingToScan),
              status |-> Some(0), apps |-> <<>>, pc |-> "exit"]
        ELSE [out |-> o, status |-> None, apps |-> loaded.value, pc |-> "installers"]

\* main up to the installers: the greeting, load_app_configurations, and the two
\* early exits
load_stage(args) ==
    LET loaded == load_app_configurations(args)
        o == print_({}, args.quiet, FALSE, "highlight", OnTheTrail)
    IN  IF loaded.error # None
        THEN [out |-> print_(o, args.quiet, TRUE, "error", loaded.error[1]),
              status |-> Some(1), apps |-> <<>>, pc |-> "exit"]
        ELSE IF loaded.value = <<>>
        THEN [out |-> print_(o, args.quiet, TRUE, "warning", NothingToScan),
              status |-> Some(0), apps |-> <<>>, pc |-> "exit"]
        ELSE [out |-> o, status |-> None, apps |-> loaded.value, pc |-> "installers"]

InstallerStatus == {"success", "not_found", "manual_action_required", "error"}

\* execute_installers_if_requested, the installers ending as outcomes says
RECURSIVE execute_installers(_, _, _, _, _)
execute_installers(o, args, configured, outcomes, i) ==
    IF ~args.run_installers \/ i > Len(configured) THEN o
    ELSE IF configured[i].installation_path = None
    THEN execute_installers(o, args, configured, outcomes, i + 1)
    ELSE LET ran == Did(o, "installer", <<ToString(i)>>)
             told == IF outcomes[i] = "success" THEN ran
                     ELSE print_(ran, args.quiet, FALSE,
                                 IF outcomes[i] = "manual_action_required"
                                 THEN "info" ELSE "warning",
                                 <<outcomes[i], ToString(i)>>)
         IN  execute_installers(told, args, configured, outcomes, i + 1)

\* the valid app entry of a configuration file
Mapping(name) ==
    [name |-> Json("str", name),
     additional_locations |-> Json("list", <<Json("str", <<PCache>>)>>),
     installation_path |-> JsonNull,
     deep_home_search |-> Json("absent", <<>>),
     patterns |-> JsonNull]

\* app entries: a valid one and entries with one field of the wrong type
RawEntries ==
    {JsonInt} \cup
    { Json("object", <<mapping>>) : mapping \in
        { Mapping(AppAb),
          [Mapping(AppAb) EXCEPT !.name = JsonNull],
          [Mapping(AppAb) EXCEPT !.name = Json("str", <<" ">>)],
          [Mapping(AppAb) EXCEPT !.name = Json("str", <<" ", "a", "b">>)],
          [Mapping(AppAb) EXCEPT !.additional_locations = Json("list", <<JsonInt>>)],
          [Mapping(AppAb) EXCEPT !.installation_path = JsonInt],
          [Mapping(AppAb) EXCEPT !.installation_path = Json("str", <<PInstaller>>)],
          [Mapping(AppAb) EXCEPT !.deep_home_search = Json("str", <<"yes">>)],
          [Mapping(AppAb) EXCEPT !.patterns = JsonInt] } }

RECURSIVE Lists(_, _)
Lists(items, n) ==
    IF n = 0 THEN {<<>>}
    ELSE Lists(items, n - 1) \cup
         { Append(list, item) : list \in Lists(items, n - 1), item \in items }

ConfigFile(kind, apps_payload) == [kind |-> kind, apps |-> apps_payload]
MissingFile == ConfigFile("missing", JsonNull)
ValidFile == ConfigFile("object", Json("list", <<Json("object", <<Mapping(AppAb)>>)>>))

\* what may be found at a configuration path
ConfigFiles ==
    {MissingFile, ConfigFile("invalid_json", JsonNull), ConfigFile("array", JsonNull),
     ConfigFile("object", JsonNull), ConfigFile("object", JsonInt)}
    \cup { ConfigFile("object", Json("list", listed)) :
             listed \in Lists(RawEntries, MaxConfigured) }

\* the command lines
MainArgs ==
    { [app |-> None, input |-> input, run_installers |-> run_installers,
       deep_home_search |-> FALSE, quiet |-> quiet,
       additional_locations |-> <<>>, installation_path |-> None, patterns |-> <<>>] :
        input \in {<<>>} \cup { <<file>> : file \in ConfigFiles }
                  \cup { <<first, second>> :
                           first \in {ValidFile, MissingFile},
                           second \in {ValidFile, MissingFile,
                                       ConfigFile("invalid_json", JsonNull)} },
        run_installers \in BOOLEAN, quiet \in BOOLEAN }
    \cup
    { [app |-> Some(<<" ", "A", "b">>), input |-> <<>>, run_installers |-> run_installers,
       deep_home_search |-> deep_home_search, quiet |-> FALSE,
       additional_locations |-> <<>>, installation_path |-> installation_path,
       patterns |-> <<>>] :
        run_installers \in BOOLEAN, deep_home_search \in BOOLEAN,
        installation_path \in {None, Some(PInstaller)} }

MainFilesystems ==
    { f \in ScanFilesystems : f[PPrefs] = Absent /\ f[PExtra] = Absent /\ f[PAlias] = Absent }

InitMain ==
    /\ fs \in MainFilesystems
    /\ fs0 = fs
    /\ MainIdle
    /\ RemoverIdle
    /\ pc = "main"
    /\ libcall \in { [fn |-> "main", args |-> args] : args \in MainArgs }

\* main, lines 457-484
LoadAppConfigurations ==
    /\ pc = "main"
    /\ out' = load_stage(libcall.args).out
    /\ status' = load_stage(libcall.args).status
    /\ apps' = load_stage(libcall.args).apps
    /\ pc' = load_stage(libcall.args).pc
    /\ UNCHANGED <<fs, fs0, results, policy, plan, entries, flags, idx, op,
                   succeeded, failed, skipped, calls, raced, libcall>>

ExecuteInstallers ==
    /\ pc = "installers"
    /\ \E outcomes \in [1..Len(apps) -> InstallerStatus] :
          out' = execute_installers(out, libcall.args, apps, outcomes, 1)
    /\ pc' = "scans"
    /\ UNCHANGED <<fs, fs0, apps, results, policy, plan, status, entries, flags, idx,
                   op, succeeded, failed, skipped, calls, raced, libcall>>

\* perform_scans: every configured application in turn
PerformScans ==
    /\ pc = "scans"
    /\ results' = [i \in 1..Len(apps) |->
                      scan(fs, apps[i], libcall.args.deep_home_search)]
    /\ out' = UNION { print_(out, libcall.args.quiet, FALSE, "rule", <<ToString(i)>>) :
                        i \in 1..Len(apps) }
    /\ pc' = "reports"
    /\ UNCHANGED <<fs, fs0, apps, policy, plan, status, entries, flags, idx, op,
                   succeeded, failed, skipped, calls, raced, libcall>>

Written == {"csv", "json", "plan", "script"}

\* main, lines 499-524: the reports, the plan, the script and the last message;
\* main returning is exit status 0
CompileReports ==
    /\ pc = "reports"
    /\ policy' = "None"
    /\ plan' = from_scan_results(results, "None")
    /\ out' = LET wrote == out \cup { [kind |-> "write", text |-> <<what>>] :
                                        what \in Written }
                  told == UNION { print_(wrote, libcall.args.quiet, FALSE, "success",
                                         <<what>>) : what \in {"plan", "script"} }
              IN  IF libcall.args.quiet THEN told
                  ELSE print_(told, FALSE, FALSE, "finalize", FetchComplete)
    /\ status' = Some(0)
    /\ pc' = "exit"
    /\ UNCHANGED <<fs, fs0, apps, results, entries, flags, idx, op,
                   succeeded, failed, skipped, calls, raced, libcall>>

NextMain == LoadAppConfigurations \/ ExecuteInstallers \/ PerformScans \/ CompileReports

SpecMain == InitMain /\ [][NextMain]_vars

\* load_app_configurations has raised ConfigurationError in this run
ConfigurationErrorRaised ==
    /\ libcall.fn = "main"
    /\ pc # "main"
    /\ load_app_configurations(libcall.args).error # None

LaterStages == {"installer", "rule", "write", "success", "finalize"}

ReportedAndExited ==
    /\ status = Some(1)
    /\ pc = "exit"
    /\ [kind |-> "error", text |-> load_app_configurations(libcall.args).error[1]] \in out
    /\ \A event \in out : event.kind \notin LaterStages
    /\ apps = <<>>
    /\ results = <<>>
    /\ policy = "unset"
    /\ plan = <<>>

\* C20: once loading the configuration has raised ConfigurationError (a missing
\* file, invalid JSON, a malformed schema or a field of the wrong type), main has
\* printed the message and exited with status 1, and from then on no installer
\* runs, no application is scanned, no report, plan or script is written and the
\* completion message is never printed.
C20_ConfigurationErrorEndsTheRun ==
    [](ConfigurationErrorRaised => []ReportedAndExited)

\* a quiet run asked to run installers whose configuration has a field of the
\* wrong type, after the error
C20_Witness ==
    /\ ConfigurationErrorRaised
    /\ libcall.args.quiet /\ libcall.args.run_installers
    /\ load_app_configurations(libcall.args).error[1]
          = <<"'deep_home_search' must be a boolean value.">>
    /\ status = Some(1)
    /\ out = {[kind |-> "error", text |-> <<"'deep_home_search' must be a boolean value.">>]}

----------------------------------------------------------------------------
(* InstallerRunner.run *)

\* PurePath.suffix: from the last dot of the name, unless the dot is its first
\* or its last character
path_suffix(name) ==
    LET dots == {i \in 1..Len(name) : name[i] = "."}
        last_dot == CHOOSE i \in dots : \A j \in dots : j <= i
    IN  IF dots = {} \/ last_dot = 1 \/ last_dot = Len(name) THEN <<>>
        ELSE SubSeq(name, last_dot, Len(name))

DotPkg == <<".", "p", "k", "g">>
DotDmg == <<".", "d", "m", "g">>

InstallerOutcome(status_, exit_code, command) ==
    [raised |-> None, status |-> status_, exit_code |-> exit_code, command |-> command]

\* the command could not be started: subprocess.call raises and run lets it through
Raised(exception, command) ==
    [raised |-> Some(exception), status |-> "", exit_code |-> None, command |-> command]

\* _handle_exit_code, which turns any exit code but 0 into success as well
handle_exit_code_always_success(exit_code, command) ==
    InstallerOutcome("success", Some(exit_code), command)

\* _handle_exit_code
handle_exit_code(exit_code, command) ==
    IF exit_code = 0 THEN InstallerOutcome("success", Some(exit_code), command)
    ELSE InstallerOutcome("error", Some(exit_code), command)

ExitCodes == {0, 1, 2}

\* what subprocess.call may do with a command: the exit codes it may return, and
\* the exception it raises when the program cannot be started.  A path run
\* directly starts only if it is a file with execute permission; sudo and open
\* start only where they are installed.
call_results(command, installer, tools) ==
    IF command = "exec"
    THEN IF installer.kind = "file" /\ installer.executable
         THEN { handle_exit_code(code, command) : code \in ExitCodes }
         ELSE { Raised("PermissionError", command) }
    ELSE IF tools THEN { handle_exit_code(code, command) : code \in ExitCodes }
    ELSE { Raised("FileNotFoundError", command) }

\* InstallerRunner.run: every result it may have
run_installer_outcomes(installer, tools) ==
    IF installer.kind = "absent"
    THEN { InstallerOutcome("not_found", None, "none") }
    ELSE IF lower(path_suffix(installer.name)) = DotPkg
    THEN call_results("sudo installer -pkg", installer, tools)
    ELSE IF lower(path_suffix(installer.name)) = DotDmg
    THEN { InstallerOutcome("manual_action_required", None, "none") }
    ELSE IF installer.kind = "dir" /\ endswith(installer.name, DotApp)
    THEN call_results("open", installer, tools)
    ELSE call_results("exec", installer, tools)

InstallerNames ==
    { <<"a">> \o ext : ext \in {<<>>, DotPkg, DotDmg, DotApp, <<".", "P", "K", "G">>,
                                <<".", "D", "M", "G">>, <<".", "s", "h">>} }

\* installer paths: what is at the path and whether it may be executed
Installers ==
    { i \in [name : InstallerNames, kind : {"absent", "file", "dir"}, executable : BOOLEAN] :
        i.kind = "absent" => ~i.executable }

InitInstaller ==
    /\ LibraryIdle
    /\ pc = "call"
    /\ libcall \in { [fn |-> "InstallerRunner.run", installer_path |-> i, tools |-> t,
                      result |-> None] : i \in Installers, t \in BOOLEAN }

RunInstaller ==
    /\ libcall.fn = "InstallerRunner.run"
    /\ \E outcome \in run_installer_outcomes(libcall.installer_path, libcall.tools) :
          Return_(outcome)

SpecInstaller == InitInstaller /\ [][RunInstaller]_vars

InstallerReturned == Returned /\ libcall.fn = "InstallerRunner.run"

IsPkg(name) == endswith(lower(name), DotPkg) /\ Len(name) > Len(DotPkg)
IsDmg(name) == endswith(lower(name), DotDmg) /\ Len(name) > Len(DotDmg)

\* C21: a path that does not exist is not-found and an existing .dmg is
\* manual-action-required, both without a command; an existing .pkg runs the
\* package install, an existing .app directory is opened, anything else is
\* executed, and then the outcome is success exactly for exit code 0 and
\* otherwise error with the exit code; run never raises.
C21_InstallerOutcomes ==
    InstallerReturned =>
        LET installer == libcall.installer_path
            outcome == libcall.result[1]
            expected == IF IsPkg(installer.name) THEN "sudo installer -pkg"
                        ELSE IF installer.kind = "dir" /\ endswith(installer.name, DotApp)
                        THEN "open" ELSE "exec"
        IN  /\ outcome.raised = None
            /\ IF installer.kind = "absent"
               THEN outcome.status = "not_found" /\ outcome.command = "none"
               ELSE IF IsDmg(installer.name)
               THEN outcome.status = "manual_action_required" /\ outcome.command = "none"
               ELSE /\ outcome.command = expected
                    /\ outcome.exit_code # None
                    /\ outcome.status = "success" <=> outcome.exit_code = Some(0)
                    /\ outcome.status # "success" => outcome.status = "error"

\* as built: the same, whenever the command could be started
C21_OutcomesOfStartedCommands ==
    InstallerReturned =>
        LET installer == libcall.installer_path
            outcome == libcall.result[1]
            expected == IF IsPkg(installer.name) THEN "sudo installer -pkg"
                        ELSE IF installer.kind = "dir" /\ endswith(installer.name, DotApp)
                        THEN "open" ELSE "exec"
        IN  IF installer.kind = "absent"
            THEN outcome = InstallerOutcome("not_found", None, "none")
            ELSE IF IsDmg(installer.name)
            THEN outcome = InstallerOutcome("manual_action_required", None, "none")
            ELSE /\ outcome.command = expected
                 /\ outcome.raised = None =>
                       /\ outcome.exit_code # None
                       /\ outcome.status = "success" <=> outcome.exit_code = Some(0)
                       /\ outcome.status # "success" => outcome.status = "error"
                 /\ outcome.raised # None =>
                       IF expected = "exec"
                       THEN ~(installer.kind = "file" /\ installer.executable)
                       ELSE ~libcall.tools

----------------------------------------------------------------------------
(* types: the guards is_app_config_entry and is_apps_config *)

JsonAbsent == Json("absent", <<>>)
JsonStr(chars) == Json("str", chars)
JsonList(items) == Json("list", items)

AllStrings(list) == \A i \in 1..Len(list.value) : list.value[i].type = "str"

\* is_app_config_entry; a key that the object does not have is JsonAbsent
is_app_config_entry(obj) ==
    IF obj.type # "object" THEN FALSE
    ELSE LET o == obj.value[1]
         IN  IF o.name.type # "str" \/ strip(o.name.value, Whitespace) = <<>> THEN FALSE
             ELSE IF /\ o.additional_locations.type # "absent"
                     /\ (o.additional_locations.type # "list"
                            \/ ~AllStrings(o.additional_locations))
             THEN FALSE
             ELSE IF o.installation_path.type \notin {"absent", "null", "str"} THEN FALSE
             ELSE IF o.deep_home_search.type \notin {"absent", "bool"} THEN FALSE
             ELSE IF /\ o.patterns.type # "absent"
                     /\ (o.patterns.type # "list" \/ ~AllStrings(o.patterns))
             THEN FALSE
             ELSE TRUE

\* is_apps_config; config.apps is JsonAbsent when the object has no "apps" key
is_apps_config(config) ==
    IF config.type # "object" THEN FALSE
    ELSE IF config.value[1].apps.type # "list" THEN FALSE
    ELSE \A i \in 1..Len(config.value[1].apps.value) :
            is_app_config_entry(config.value[1].apps.value[i])

OptPath == <<"/", "o">>

\* the values an entry may be: not an object, or an object with each key absent,
\* of the right type or of a wrong one
EntryValues ==
    {JsonInt} \cup
    { Json("object", <<o>>) : o \in
        [name : {JsonAbsent, JsonInt, JsonStr(<<" ">>), JsonStr(AppAb)},
         additional_locations : {JsonAbsent, JsonInt, JsonList(<<JsonStr(OptPath)>>),
                                 JsonList(<<JsonStr(OptPath), JsonInt>>)},
         installation_path : {JsonAbsent, JsonNull, JsonStr(OptPath), JsonInt},
         deep_home_search : {JsonAbsent, Json("bool", <<"true">>), JsonStr(<<"y">>)},
         patterns : {JsonAbsent, JsonList(<<JsonStr(<<"*">>)>>), JsonInt}] }

NameOnly ==
    Json("object", <<[name |-> JsonStr(AppAb), additional_locations |-> JsonAbsent,
                      installation_path |-> JsonAbsent, deep_home_search |-> JsonAbsent,
                      patterns |-> JsonAbsent]>>)

WithLocations ==
    Json("object", <<[name |-> JsonStr(AppAb),
                      additional_locations |-> JsonList(<<JsonStr(OptPath)>>),
                      installation_path |-> JsonAbsent, deep_home_search |-> JsonAbsent,
                      patterns |-> JsonAbsent]>>)

\* the values a configuration may be
ConfigValues ==
    {JsonInt, Json("object", <<[apps |-> JsonAbsent]>>), Json("object", <<[apps |-> JsonInt]>>)}
    \cup { Json("object", <<[apps |-> JsonList(listed)]>>) :
             listed \in Lists({JsonInt, NameOnly, WithLocations}, MaxConfigured) }

InitTypes ==
    /\ LibraryIdle
    /\ pc = "call"
    /\ libcall \in { [fn |-> "is_app_config_entry", obj |-> obj, result |-> None] :
                        obj \in EntryValues }
                   \cup { [fn |-> "is_apps_config", obj |-> obj, result |-> None] :
                            obj \in ConfigValues }

IsAppConfigEntry ==
    /\ libcall.fn = "is_app_config_entry"
    /\ Return_(is_app_config_entry(libcall.obj))

IsAppsConfig ==
    /\ libcall.fn = "is_apps_config"
    /\ Return_(is_apps_config(libcall.obj))

NextTypes == IsAppConfigEntry \/ IsAppsConfig

SpecTypes == InitTypes /\ [][NextTypes]_vars

\* an object with a non-blank string name and a list of strings under
\* additional_locations
NamedWithLocations(obj) ==
    /\ obj.type = "object"
    /\ obj.value[1].name.type = "str"
    /\ strip(obj.value[1].name.value, Whitespace) # <<>>
    /\ obj.value[1].additional_locations.type = "list"
    /\ AllStrings(obj.value[1].additional_locations)

OtherKeysAbsent(obj) ==
    /\ obj.value[1].installation_path = JsonAbsent
    /\ obj.value[1].deep_home_search = JsonAbsent
    /\ obj.value[1].patterns = JsonAbsent

\* C22: is_app_config_entry accepts exactly the objects with a non-blank string
\* name and a list of strings under additional_locations, so a named entry
\* without that key is rejected, and is_apps_config rejects a configuration
\* whose apps list holds such an entry or an element that is not an object.
C22_EntryNeedsLocations ==
    /\ (Returned /\ libcall.fn = "is_app_config_entry") =>
          /\ libcall.result[1] => NamedWithLocations(libcall.obj)
          /\ (NamedWithLocations(libcall.obj) /\ OtherKeysAbsent(libcall.obj))
                => libcall.result[1]
    /\ (Returned /\ libcall.fn = "is_apps_config" /\ libcall.obj.type = "object"
          /\ libcall.obj.value[1].apps.type = "list") =>
          ((\E i \in 1..Len(libcall.obj.value[1].apps.value) :
               ~NamedWithLocations(libcall.obj.value[1].apps.value[i]))
             => ~libcall.result[1])

\* as built: additional_locations may be left out, every key that is present
\* must have its type, and a configuration is accepted exactly when apps is a
\* list of accepted entries
C22_EntryAsBuilt ==
    /\ (Returned /\ libcall.fn = "is_app_config_entry" /\ libcall.obj = NameOnly) =>
          libcall.result[1]
    /\ (Returned /\ libcall.fn = "is_app_config_entry" /\ libcall.result[1]) =>
          /\ libcall.obj.type = "object"
          /\ libcall.obj.value[1].name.type = "str"
          /\ libcall.obj.value[1].additional_locations.type \in {"absent", "list"}
    /\ (Returned /\ libcall.fn = "is_apps_config" /\ libcall.obj.type = "object"
          /\ libcall.obj.value[1].apps.type = "list") =>
          (libcall.result[1] <=> JsonInt \notin Range(libcall.obj.value[1].apps.value))

----------------------------------------------------------------------------
(* Further properties of perform_scans, checked under Spec *)

ReportedPaths(result) == { result.artifacts[n].path : n \in 1..Len(result.artifacts) }

----------------------------------------------------------------------------
(* Further properties of ArtifactRemover.remove, checked under SpecRemove *)

\* position i was let past the head of the loop
PassedGate(i) ==
    \/ i \in SucceededSet \cup FailedSet
    \/ (idx = i /\ pc \in {"check", "chmod", "decide", "remove"})

AnsweredYes(i) == [kind |-> "input", text |-> <<ToString(i), "yes">>] \in out
AnsweredNo(i) == [kind |-> "input", text |-> <<ToString(i), "no">>] \in out

CallsFor(i) == {c \in calls : c.entry = i}

Untouched(path) == Lookup(fs, path) = Lookup(fs0, path)

----------------------------------------------------------------------------
(* Further properties of the scan, checked under Spec *)

\* the removal safety that goes with a scope and a category
TierOf(x) ==
    IF x.scope \in {"configured", "discovered"} THEN "review"
    ELSE IF x.category \in {"cache", "logs"} THEN "safe"
    ELSE "caution"

SafetyIsStatic(x) ==
    /\ x.removal_safety = TierOf(x)
    /\ x.removal_safety = "review" <=> x.scope \in {"configured", "discovered"}
    /\ x.scope \in {"configured", "discovered"} => x.category = "other"
    /\ x.removal_safety = "safe" <=> x.category \in {"cache", "logs"}
    /\ x.category \in {"application", "support", "preferences", "launch-agent"}
          => x.removal_safety = "caution"

\* C25: the removal safety of an artifact is the one its candidate was built
\* with, whatever is on the filesystem: review exactly for the scopes configured
\* and discovered (which have category other), safe exactly for the categories
\* cache and logs, caution for application, support, preferences and launch-agent.
C25_SafetyIsStatic ==
    \A k \in LastScanned :
        LET cands == CandidatesOf(k)
            arts == results[k].artifacts
        IN  /\ \A c \in 1..Len(cands) : SafetyIsStatic(cands[c])
            /\ \A i \in 1..Len(arts) :
                  /\ SafetyIsStatic(arts[i])
                  /\ \E c \in 1..Len(cands) :
                        /\ resolve(fs, cands[c].path) = arts[i].path
                        /\ cands[c].removal_safety = arts[i].removal_safety

\* a scan reporting a safe cache artifact, a caution preferences artifact, a
\* review artifact found by the deep search and a review artifact that is missing
C25_Witness ==
    \E k \in LastScanned :
        LET arts == results[k].artifacts
        IN  /\ \E i \in 1..Len(arts) :
                  arts[i].category = "cache" /\ arts[i].removal_safety = "safe"
            /\ \E i \in 1..Len(arts) :
                  arts[i].category = "preferences" /\ arts[i].removal_safety = "caution"
            /\ \E i \in 1..Len(arts) :
                  arts[i].scope = "discovered" /\ arts[i].removal_safety = "review"
            /\ \E i \in 1..Len(arts) :
                  arts[i].scope = "configured" /\ ~arts[i].exists

\* the existing paths whose stat raises
Unreadable == { p \in DOMAIN fs : exists(fs, p) /\ Lookup(fs, p).ioerr }

\* C26: when stat fails on an existing candidate path, the path still has its
\* artifact, with exists true and neither size nor modification time; exactly
\* one error names the path; and the candidates after it are still scanned.
C26_UnreadableMetadataKeepsArtifact ==
    \A k \in LastScanned :
        LET arts == results[k].artifacts
            errs == results[k].errors
            cands == CandidatesOf(k)
            keys == List([c \in 1..Len(cands) |-> resolve(fs, cands[c].path)])
            reported == { arts[i].path : i \in 1..Len(arts) }
        IN  /\ \A p \in Unreadable \cap Range(keys) :
                  /\ Cardinality({i \in 1..Len(arts) : arts[i].path = p}) = 1
                  /\ \A i \in 1..Len(arts) : arts[i].path = p =>
                        /\ arts[i].exists
                        /\ arts[i].size_bytes = None
                        /\ arts[i].last_modified = None
                  /\ Cardinality({e \in 1..Len(errs) :
                                     errs[e].kind = "metadata" /\ errs[e].path = p}) = 1
            /\ \A c \in 1..Len(keys) : exists(fs, keys[c]) => keys[c] \in reported
            /\ \A i \in 1..Len(arts) :
                  (arts[i].exists /\ arts[i].path \notin Unreadable)
                      => arts[i].last_modified # None

\* a scan with an artifact whose metadata could not be read, and an artifact
\* with its metadata after it in the result
C26_Witness ==
    \E k \in LastScanned :
        LET arts == results[k].artifacts
        IN  \E i, j \in 1..Len(arts) :
               /\ i < j
               /\ arts[i].path \in Unreadable
               /\ arts[i].exists /\ arts[i].last_modified = None
               /\ arts[j].exists /\ arts[j].last_modified # None

\* the chmod of make_writable_best_effort went through for position i
MadeWritable(i) == \E c \in calls : c.entry = i /\ c.call = "chmod"

\* C27: in a run that is not a dry run, the step that adds write permission
\* never puts an entry in failed, whether it works or not, and the removal is
\* then attempted; a removal call that fails puts the entry in failed with a
\* message and not in succeeded; and when remove returns, the path of every
\* entry in succeeded is gone.
C27_OnlyTheRemoveCallFails ==
    [][ ~flags.dry_run =>
          /\ pc = "chmod" =>
                /\ pc' = "decide"
                /\ failed' = failed /\ succeeded' = succeeded /\ idx' = idx
          /\ (pc = "remove" /\ lexists(fs', entries[idx].path)) =>
                /\ succeeded' = succeeded
                /\ Len(failed') = Len(failed) + 1
                /\ failed'[Len(failed')][1] = idx
                /\ failed'[Len(failed')][2] # ""
          /\ (pc = "remove" /\ succeeded' # succeeded) =>
                /\ failed' = failed
                /\ ~lexists(fs', entries[idx].path)
          /\ pc' = "done" =>
                /\ \A k \in 1..Len(succeeded') : ~lexists(fs', entries[succeeded'[k]].path)
                /\ \A k \in 1..Len(failed') :
                      \A n \in 1..Len(succeeded') : failed'[k][1] # succeeded'[n]
      ]_vars

\* a finished run, not a dry run, with an entry removed although its
\* permissions could not be changed, and an entry whose removal call failed
C27_Witness ==
    /\ Done /\ ~flags.dry_run
    /\ \E i \in SucceededSet : ~MadeWritable(i) /\ ~lexists(fs, entries[i].path)
    /\ \E k \in 1..Len(failed) :
          /\ failed[k][2] = "PermissionError"
          /\ lexists(fs, entries[failed[k][1]].path)

----------------------------------------------------------------------------
(* iter_shell_script_lines: the deletion script of a plan, a line being the
   sequence of the pieces of text it is made of *)

ScriptHeader(generated_at) ==
    << <<"#!/usr/bin/env bash">>, <<"set -euo pipefail">>, <<>>,
       <<"# app-hound deletion plan">>, <<"# generated_at: ", ToString(generated_at)>>, <<>>,
       <<"confirm() {">>, <<"  read -r -p \"$1 [y/N] \" response">>,
       <<"  case \"$response\" in">>, <<"    [yY][eE][sS]|[yY]) true ;;">>,
       <<"    *) false ;;">>, <<"  esac">>, <<"}">>, <<>> >>

\* the lines of one entry (the dash of the title line is written " - ")
script_block(entry, prompt_each) ==
    LET quoted == shell_quote(path_str(entry.path))
        cmd == suggested_command(entry)
    IN  << <<"# ">> \o entry.app_name
              \o <<" - ", entry.category, " (", entry.removal_safety, ")">> >>
        \o [n \in 1..Len(entry.notes) |-> <<"# note: ", entry.notes[n]>>]
        \o [n \in 1..Len(entry.removal_instructions) |->
               <<"# instruction: ", entry.removal_instructions[n]>>]
        \o (IF prompt_each
            THEN << <<"if confirm \"Delete ">> \o quoted \o <<"?\"; then">>,
                    <<"  ">> \o cmd,
                    <<"fi">> >>
            ELSE << cmd >>)
        \o << <<>> >>

\* the script of every entry, enabled or not
iter_shell_script_lines_of_all(p, include_header, only_enabled, prompt_each) ==
    (IF include_header THEN ScriptHeader(p.generated_at) ELSE <<>>)
    \o Flatten([i \in 1..Len(p.entries) |-> script_block(p.entries[i], prompt_each)])
    \o << <<"# End of deletion plan">> >>

iter_shell_script_lines(p, include_header, only_enabled, prompt_each) ==
    LET emitted == IF only_enabled THEN enabled_entries(p.entries) ELSE p.entries
    IN  (IF include_header THEN ScriptHeader(p.generated_at) ELSE <<>>)
        \o Flatten([i \in 1..Len(emitted) |-> script_block(emitted[i], prompt_each)])
        \o << <<"# End of deletion plan">> >>

\* plan entries with a space or a quote in the path, enabled or not, files and
\* directories, with and without notes and instructions
ScriptEntries ==
    { [app_name |-> AppAb, path |-> Path(<<>>, name), kind |-> kind,
       category |-> IF enabled THEN "cache" ELSE "other",
       scope |-> IF enabled THEN "default" ELSE "configured",
       exists |-> TRUE, writable |-> None,
       removal_safety |-> IF enabled THEN "safe" ELSE "review",
       notes |-> IF kind = "directory" THEN <<"User caches">> ELSE <<>>,
       removal_instructions |-> IF kind = "file" THEN <<"rm -rf me">> ELSE <<>>,
       enabled |-> enabled] :
        name \in {<<"a", " ", "b">>, <<"a", "'">>},
        kind \in {"file", "directory"},
        enabled \in BOOLEAN }

InitScript ==
    /\ LibraryIdle
    /\ pc = "call"
    /\ libcall \in
         { [fn |-> "iter_shell_script_lines",
            plan |-> [generated_at |-> 7, entries |-> listed],
            include_header |-> h, only_enabled |-> o, prompt_each |-> q,
            result |-> None, again |-> None] :
              listed \in Lists(ScriptEntries, MaxEntries),
              h \in BOOLEAN, o \in BOOLEAN, q \in BOOLEAN }

IterShellScriptLines ==
    /\ libcall.fn = "iter_shell_script_lines"
    /\ Return_(iter_shell_script_lines(libcall.plan, libcall.include_header,
                                       libcall.only_enabled, libcall.prompt_each))

\* the script is generated a second time from the same plan
IterShellScriptLinesAgain ==
    /\ pc = "returned"
    /\ libcall.fn = "iter_shell_script_lines"
    /\ libcall' = [libcall EXCEPT !.again =
                      Some(iter_shell_script_lines(libcall.plan, libcall.include_header,
                                                   libcall.only_enabled,
                                                   libcall.prompt_each))]
    /\ pc' = "again"
    /\ UNCHANGED <<fs, fs0, apps, results, policy, plan, entries, flags, idx, op,
                   succeeded, failed, skipped, calls, raced, out, status>>

NextScript == IterShellScriptLines \/ IterShellScriptLinesAgain

SpecScript == InitScript /\ [][NextScript]_vars

\* the lines of a script that are rm commands, their indentation taken off
CommandLines(lines) ==
    LET bare == [n \in 1..Len(lines) |->
                    IF lines[n] # <<>> /\ Head(lines[n]) = "  " THEN Tail(lines[n])
                    ELSE lines[n]]
    IN  SelectSeq(bare, LAMBDA line : HasPrefix(line, <<"r", "m", " ">>))

TitleLines(lines) == SelectSeq(lines, LAMBDA line : line # <<>> /\ Head(line) = "# ")

ScriptGenerated == pc \in {"returned", "again"} /\ libcall.fn = "iter_shell_script_lines"

----------------------------------------------------------------------------
(* The paths of the enabled entries of a plan built as main builds it *)

CacheAndLogRoots == {cache_roots[r].dir : r \in 1..Len(cache_roots)}
                        \cup {log_roots[r].dir : r \in 1..Len(log_roots)}

InsideCacheOrLogRoot(path) == \E root \in CacheAndLogRoots : HasPrefix(path.dir, root)

\* C29: after a scan and a plan built with the default policy, every enabled
\* entry has a path inside one of the four cache and log roots.
C29_EnabledPathsInsideCacheOrLogRoots ==
    (Planned /\ policy = "None") =>
        \A i \in 1..Len(plan) : plan[i].enabled => InsideCacheOrLogRoot(plan[i].path)

----------------------------------------------------------------------------
(* Entries of one batch that have the same path, checked under SpecRemove *)

\* positions i < j of the batch with the same path, both let past the gate and
\* both finished
AttemptedTwice(i, j) ==
    /\ i < j
    /\ entries[i].path = entries[j].path
    /\ {i, j} \subseteq SucceededSet \cup FailedSet

FailedNotFound(j) == \E k \in 1..Len(failed) : failed[k] = <<j, "FileNotFoundError">>

\* the batch was broken off at position j
StoppedAt(j) == pc = "done" /\ idx = j /\ failed[Len(failed)][1] = j

====
